---------------------------- MODULE Spec2Model ----------------------------
(***************************************************************************)
(* MediaWarp: the interception pipeline of the reverse proxy placed in     *)
(* front of Emby / Jellyfin / FNTV.                                        *)
(*                                                                         *)
(*   - the regex router and the reverse proxies   (router.go, part_001)    *)
(*   - the response rewriters                     (part_001, jellyfin.go)  *)
(*   - the videos redirect handler                (part_001, jellyfin.go)  *)
(*   - the HTTP and Alist STRM resolvers          (strm.go)                *)
(*   - the image / subtitle cache middleware      (part_002, part_003)     *)
(*   - the token and the requests of the Alist client  (part_000)          *)
(*   - the FNTV stream rewriter                   (fntv.go)                *)
(*                                                                         *)
(* Every handler is one action: the whole call, from the request to the    *)
(* response written to the client.  What the handler learns from the       *)
(* outside (the upstream's answer, the origin's redirect, Alist's answer)  *)
(* is an input of the action, drawn from a small set.  The variable `last` *)
(* records what the last call did: which handlers ran, which requests went *)
(* to the upstream, what the client received.  getToken alone is split     *)
(* into the steps between which other goroutines can run.                  *)
(***************************************************************************)
EXTENDS Integers, Sequences, FiniteSets, TLC

VARIABLES
    config,         \* the configuration read at startup (config.*)
    routerRules,    \* handler.routerRules, built by New...Handler
    httpStrmCache,  \* the bigcache captured by getHTTPStrmHandler's closure
    cachePool,      \* the bigcache of one cache middleware (image or subtitle)
    now,            \* the clock, in ticks
    last,           \* what the last handled call did
    resolved,       \* history: per STRM content, the last successful resolution
    recorded,       \* history: per cache key, the response of the last populating miss
    token,          \* AlistClient.token: value and expireAt
    mutex,          \* AlistClient.token.mutex: who holds it for reading, for writing
    calls,          \* the calls of the goroutines: position and locals
    installed,      \* history: the value/expireAt pairs a constructor or a whole
                    \* refresh has installed
    alistCache      \* AlistClient.cache: the bigcache of API responses

alistVars == <<token, mutex, calls, installed, alistCache>>

vars == <<config, routerRules, httpStrmCache, cachePool, now, last, resolved, recorded,
          alistVars>>

(***************************************************************************)
(* Bounds of the model.                                                    *)
(***************************************************************************)
MaxTime == 2        \* the clock stops here
MaxSources == 2     \* media sources in one Items / PlaybackInfo answer

(***************************************************************************)
(* Small helpers.                                                          *)
(***************************************************************************)
Range(s) == {s[i] : i \in DOMAIN s}

SeqsUpTo(S, n) == UNION {[1..k -> S] : k \in 0..n}

\* strings.HasSuffix / strings.ToLower / strings.Replace(..., 1) on the
\* strings of the model, by table: TLC has no substring on strings.
HasSuffixStrm(lowered) == lowered \in {"/media/a.strm", "/media/h.strm", "/media/u.strm"}

ToLower(s) ==
    CASE s = "/media/A.STRM" -> "/media/a.strm"
      [] OTHER -> s

\* strings.Replace(id, "mediasource_", "", 1)
StripMediaSourcePrefix(id) ==
    CASE id = "mediasource_31" -> "31"
      [] id = "mediasource_42" -> "42"
      [] OTHER -> id

(***************************************************************************)
(* HTTP messages.                                                          *)
(*                                                                         *)
(* A body is its bytes (raw), what json.Unmarshal makes of them (json,     *)
(* NotJSON when they do not parse) and their length.                       *)
(***************************************************************************)
NotJSON == [valid |-> FALSE, MediaSources |-> <<>>]
NoBody == [raw |-> "", json |-> NotJSON, len |-> 0]

HeaderNames == {"Content-Type", "Content-Length", "ETag", "Connection", "X-Upstream",
                "Location", "Cache-Control", "Content-Disposition"}

\* net/http/httputil: the hop-by-hop headers ReverseProxy removes.
HopHeaders == {"Connection", "Proxy-Connection", "Keep-Alive", "Proxy-Authenticate",
               "Proxy-Authorization", "Te", "Trailer", "Transfer-Encoding", "Upgrade"}

NoHeader == [h \in HeaderNames |-> ""]

HeaderReplaced(header, key, value) == [h \in HeaderNames |-> IF h = key THEN value ELSE ""]

\* http.Header.Set: the one key gets the value, the others stay
HeaderSet(header, key, value) == [header EXCEPT ![key] = value]

\* the http.Response a rewriter receives, and the response a client receives
Response(status, header, body) == [StatusCode |-> status, Header |-> header, Body |-> body]

\* rw.Body after io.ReadAll and Close, when no new body is installed
Drained == [raw |-> "<drained>", json |-> NotJSON, len |-> 0]

\* A query string: a sequence of key=value pairs, in the order sent.
RECURSIVE EncodeQuery(_)
EncodeQuery(q) ==
    IF q = <<>> THEN ""
    ELSE q[1].k \o "=" \o q[1].v
         \o (IF Len(q) > 1 THEN "&" \o EncodeQuery(Tail(q)) ELSE "")

\* ctx.Request.URL.Path has no query string; the request URI has it.
RequestURI(req) ==
    IF req.Query = <<>> THEN req.Path ELSE req.Path \o "?" \o EncodeQuery(req.Query)

\* ctx.Query(key): the first value of the key, "" when absent
RECURSIVE QueryGet(_, _)
QueryGet(q, key) ==
    IF q = <<>> THEN ""
    ELSE IF q[1].k = key THEN q[1].v
    ELSE QueryGet(Tail(q), key)

Request(method, path, query, ua, enc) ==
    [Method |-> method, Path |-> path, Query |-> query,
     UserAgent |-> ua, AcceptEncoding |-> enc, Range |-> ""]

\* the request with a Range header
WithRange(req, range) == [req EXCEPT !.Range = range]

(***************************************************************************)
(* The sharded TTL cache (bigcache) as the code uses it: Get by key, Set   *)
(* of a key, and the cleaner that removes the entries older than the life  *)
(* window.  Get does not look at the age: an entry the cleaner has not     *)
(* removed yet is a hit.  The caches of the model are never under memory   *)
(* pressure.                                                               *)
(***************************************************************************)
EmptyCache == [k \in {} |-> 0]

CacheHas(cache, key) == key \in DOMAIN cache

CacheGet(cache, key) == cache[key].val

CacheSet(cache, key, val, t) ==
    [k \in DOMAIN cache \cup {key} |->
        IF k = key THEN [val |-> val, at |-> t] ELSE cache[k]]

CacheClean(cache, ttl, t) ==
    [k \in {x \in DOMAIN cache : t - cache[x].at < ttl} |-> cache[k]]

CacheFresh(cache, key, ttl, t) == CacheHas(cache, key) /\ t - cache[key].at < ttl

(***************************************************************************)
(* The token of an AlistClient and the sync.RWMutex that guards it.        *)
(***************************************************************************)
\* time.Time{}: the zero instant, which lies before every instant of the clock
ZeroTime == -1

\* tokenDuration (2 days less 5 minutes), in ticks of the clock
TokenDuration == 2

NoToken == [value |-> "", expireAt |-> ZeroTime]

Unlocked == [readers |-> {}, writer |-> 0, waiting |-> {}]

\* the test of getToken under the read lock: a token that is set and either
\* never expires or expires later than t
TokenValid(tok, t) ==
    tok.value # "" /\ (tok.expireAt = ZeroTime \/ t < tok.expireAt)

\* a lock that lets a reader in while a writer holds it
RLockUnguarded(m) == TRUE

\* RLock returns once no writer holds the mutex and none waits for it: a
\* sync.RWMutex holds a new reader back while a Lock call is pending
CanRLock(m) == m.writer = 0 /\ m.waiting = {}

\* Lock first excludes the other writers (rw.w.Lock()) and announces itself ...
CanAnnounceLock(m) == m.writer = 0 /\ m.waiting = {}

\* ... and returns once the readers that were in have left
CanLock(m) == m.writer = 0 /\ m.readers = {}

(***************************************************************************)
(* What one call does, as the action records it in `last`.                 *)
(*   handlers   the handlers the router ran, in order                      *)
(*   chain      the pre-middleware chain ran (QueryKeyCaseInsensitive,     *)
(*              DisableCompression)                                        *)
(*   upstream   the requests sent to the upstream through a reverse proxy  *)
(*   rewriters  the ModifyResponse functions invoked                       *)
(*   items      the ids asked of the upstream Items endpoint               *)
(*   origin     the GETs sent to an HTTP STRM origin                       *)
(*   alist      the Alist API calls made                                   *)
(*   written    how many times a response was written to the client        *)
(*   resp       the response the client received                           *)
(***************************************************************************)
NoResponse == Response(0, NoHeader, NoBody)

Out0 ==
    [op |-> "none", req |-> Request("", "", <<>>, "", ""),
     env |-> [up |-> TRUE, resp |-> NoResponse,
              items |-> [err |-> TRUE, Items |-> <<>>],
              origin |-> [err |-> TRUE, location |-> ""],
              alist |-> [client |-> FALSE,
                         fsget |-> [err |-> TRUE, RawURL |-> "", Sign |-> "", Size |-> 0],
                         preview |-> [err |-> TRUE, tasks |-> <<>>], basePath |-> ""],
              sourceItems |-> <<>>, fileErr |-> FALSE, setOk |-> TRUE],
     handlers |-> <<>>, chain |-> FALSE, upstream |-> <<>>,
     rewriters |-> <<>>, rewriterErr |-> FALSE, items |-> <<>>, origin |-> <<>>,
     alist |-> <<>>, written |-> 0, panic |-> FALSE, resp |-> NoResponse,
     strmCache |-> EmptyCache,
     mw |-> [key |-> "", read |-> FALSE, parseErr |-> FALSE, hit |-> FALSE,
             next |-> FALSE, set |-> "none"],
     rec |-> [known |-> FALSE, StatusCode |-> 0, Body |-> NoBody, Range |-> ""],
     other |-> [req |-> Request("", "", <<>>, "", ""), key |-> ""],
     at |-> 0,
     api |-> [r |-> [CacheKey |-> "", NeedAuth |-> FALSE],
              wire |-> [err |-> TRUE, StatusCode |-> 0,
                        Body |-> [valid |-> FALSE, Code |-> 0, Data |-> ""]],
              setOk |-> TRUE, cacheOn |-> FALSE, err |-> FALSE, data |-> "",
              got |-> FALSE, hit |-> FALSE, sent |-> FALSE, set |-> "none",
              login |-> FALSE, before |-> [k \in {} |-> 0],
              after |-> [k \in {} |-> 0]],
     resolver |-> [content |-> "", need |-> FALSE, err |-> FALSE,
                   res |-> [url |-> "", fileSize |-> 0, transcodeResources |-> <<>>]],
     strm |-> [content |-> "", url |-> "", hit |-> FALSE, failed |-> FALSE],
     prior |-> [known |-> FALSE, url |-> ""]]

(***************************************************************************)
(* The HTTP STRM resolver: the closure getHTTPStrmHandler returns.         *)
(***************************************************************************)
\* the factory creates the cache only under these three settings
HTTPStrmCacheOn(cfg) == cfg.CacheEnable /\ cfg.HTTPStrmTTL > 0 /\ cfg.FinalURL

\* getFinalURL(client, content, ua): one GET to the origin without following
\* redirects; the Location header, or the URL itself on a 200.  On an error the
\* string it returns is the zero value.
getFinalURL(content, ua, origin) ==
    IF origin.err THEN [url |-> "", err |-> TRUE]
    ELSE [url |-> IF origin.location = "" THEN content ELSE origin.location,
          err |-> FALSE]

\* the value the closure returns after getFinalURL
ResolvedURL(content, r) == r.url

\* a closure that resolves every time
NeverLooksUp(cfg) == FALSE

\* whether the closure looks the content up before resolving
LooksUpCache(cfg) == HTTPStrmCacheOn(cfg)

\* [url, cache, origin, hit, failed]: the URL returned, the cache afterwards,
\* the GETs sent to the origin
httpStrmHandler(content, ua, origin, cfg, cache, t) ==
    IF cfg.FinalURL
    THEN IF LooksUpCache(cfg) /\ CacheHas(cache, content)
         THEN [url |-> CacheGet(cache, content), cache |-> cache, origin |-> <<>>,
               hit |-> TRUE, failed |-> FALSE]
         ELSE LET r == getFinalURL(content, ua, origin)
                  finalURL == ResolvedURL(content, r)
              IN  [url |-> finalURL,
                   cache |-> IF HTTPStrmCacheOn(cfg)
                             THEN CacheSet(cache, content, finalURL, t)
                             ELSE cache,
                   origin |-> <<[url |-> content, ua |-> ua]>>,
                   hit |-> FALSE, failed |-> r.err]
    ELSE [url |-> content, cache |-> cache, origin |-> <<>>,
          hit |-> FALSE, failed |-> FALSE]

(***************************************************************************)
(* The Alist resolver.                                                     *)
(***************************************************************************)
\* strconv.ParseInt(expireStr, 10, 64) on the strings of the model
ParseInt(s) ==
    CASE s = "1" -> [ok |-> TRUE, n |-> 1]
      [] s = "2" -> [ok |-> TRUE, n |-> 2]
      [] s = "5" -> [ok |-> TRUE, n |-> 5]
      [] OTHER -> [ok |-> FALSE, n |-> 0]

\* path.Join("/d", basePath, content) for rooted, clean components
PathJoinD(basePath, content) == "/d" \o basePath \o content

\* what url.Parse makes of a string: an error, or a URL with its path (as the
\* pieces it is written from, the extension last) and its query
NotURL == [ok |-> FALSE, Path |-> <<>>, Query |-> <<>>]

ParsedURL(path, query) == [ok |-> TRUE, Path |-> path, Query |-> query]

\* strings.HasSuffix on a path given by its pieces
HasSuffix(path, suffix) == path # <<>> /\ path[Len(path)] = suffix

\* u.Query().Get("x-oss-expires"): the first value of the key, "" without one
ExpireStr(task) == QueryGet(task.parsed.Query, "x-oss-expires")

TaskHasURL(task) == task.Url # ""

\* one task of LiveTranscodingTaskList -> the variant it contributes, if any.
\* A task carries its URL and what url.Parse makes of it.
TaskAccepted(task) ==
    /\ task.Url # ""
    /\ task.parsed.ok
    /\ ExpireStr(task) # ""
    /\ ParseInt(ExpireStr(task)).ok

TaskInfo(task) ==
    [url |-> task.Url,
     isM3U8 |-> HasSuffix(task.parsed.Path, ".m3u8"),
     expireAt |-> ParseInt(ExpireStr(task)).n,
     resolution |-> [width |-> task.TemplateHeight, height |-> task.TemplateHeight,
                     name |-> task.TemplateName]]

RECURSIVE TranscodeResources(_)
TranscodeResources(tasks) ==
    IF tasks = <<>> THEN <<>>
    ELSE (IF TaskAccepted(tasks[1]) THEN <<TaskInfo(tasks[1])>> ELSE <<>>)
         \o TranscodeResources(Tail(tasks))

\* which API calls alistStrmHandler makes after FsGet
PreviewWanted(needTranscodeResourceInfo) == needTranscodeResourceInfo

NoResult == [url |-> "", fileSize |-> 0, transcodeResources |-> <<>>]

PreviewErrorFails(base) == [err |-> TRUE, res |-> NoResult, calls |-> <<"FsGet", "video_preview">>]

\* GetVideoPreviewData failed: the URL and the size are returned all the same
AfterPreviewError(base) == [err |-> FALSE, res |-> base, calls |-> <<"FsGet", "video_preview">>]

\* [err, res, calls]
alistStrmHandler(content, alistAddr, needTranscodeResourceInfo, a, cfg) ==
    IF ~a.client
    THEN [err |-> TRUE, res |-> NoResult, calls |-> <<>>]
    ELSE IF a.fsget.err
    THEN [err |-> TRUE, res |-> NoResult, calls |-> <<"FsGet">>]
    ELSE LET url == IF cfg.RawURL THEN a.fsget.RawURL
                    ELSE alistAddr
                         \o (IF a.fsget.Sign # "" THEN "?sign=" \o a.fsget.Sign ELSE "")
                         \o PathJoinD(a.basePath, content)
             base == [url |-> url, fileSize |-> a.fsget.Size, transcodeResources |-> <<>>]
         IN  IF ~PreviewWanted(needTranscodeResourceInfo)
             THEN [err |-> FALSE, res |-> base, calls |-> <<"FsGet">>]
             ELSE IF a.preview.err
             THEN AfterPreviewError(base)
             ELSE [err |-> FALSE,
                   res |-> [base EXCEPT !.transcodeResources =
                                TranscodeResources(a.preview.tasks)],
                   calls |-> <<"FsGet", "video_preview">>]

(***************************************************************************)
(* The STRM recognizer: the kind of the STRM file at an item path, and the *)
(* Alist address for an Alist mount.                                       *)
(***************************************************************************)
AlistAddr == "http://alist:5244"

recgonizeStrmFileType(path) ==
    CASE path = "/media/h.strm" -> [kind |-> "HTTPStrm", opt |-> ""]
      [] path = "/media/a.strm" -> [kind |-> "AlistStrm", opt |-> AlistAddr]
      [] path = "/media/A.STRM" -> [kind |-> "AlistStrm", opt |-> AlistAddr]
      [] OTHER -> [kind |-> "UnknownStrm", opt |-> ""]

(***************************************************************************)
(* The reverse proxies (net/http/httputil.ReverseProxy).                   *)
(*                                                                         *)
(* A proxy is its ErrorHandler ("custom": the one the constructor sets,    *)
(* "default": none set, the library's own) and its ModifyResponse ("none"  *)
(* or the rewriter's name).                                                *)
(***************************************************************************)
MkText(raw) == [raw |-> raw, json |-> NotJSON, len |-> Len(raw)]

\* the body the custom ErrorHandler writes
ErrorBody == MkText("{\"error\": \"<cannot reach the upstream server, retry later>\"}")

\* handler.proxy.ErrorHandler: 502 with the fixed JSON body
CustomErrorHandler(o) ==
    [o EXCEPT !.resp = Response(502, NoHeader, ErrorBody), !.written = @ + 1]

\* ReverseProxy.defaultErrorHandler: 502, no body
DefaultErrorHandler(o) ==
    [o EXCEPT !.resp = Response(502, NoHeader, NoBody), !.written = @ + 1]

ErrorHandler(proxy, o) ==
    IF proxy.ErrorHandler = "custom" THEN CustomErrorHandler(o) ELSE DefaultErrorHandler(o)

\* the response as ReverseProxy copies it to the client
CopyResponse(rw, o) ==
    [o EXCEPT !.resp = Response(rw.StatusCode,
                                [h \in HeaderNames |->
                                    IF h \in HopHeaders THEN "" ELSE rw.Header[h]],
                                rw.Body),
              !.written = @ + 1]

\* gin's Recovery middleware answers a panic with 500
Recovered(o) ==
    [o EXCEPT !.resp = Response(500, NoHeader, NoBody), !.panic = TRUE, !.written = @ + 1]

\* ctx.Redirect(http.StatusFound, location)
Redirect(location, o) ==
    [o EXCEPT !.resp = Response(302, HeaderSet(NoHeader, "Location", location), NoBody),
              !.written = @ + 1]

\* handler.proxy: the single-host proxy with the custom ErrorHandler
HandlerProxy == [ErrorHandler |-> "custom", ModifyResponse |-> "none"]

\* &httputil.ReverseProxy{Director: handler.proxy.Director}: only the Director
\* is taken over; responseModifyCreater installs the rewriter
RewriteProxy(modifier) == [ErrorHandler |-> "default", ModifyResponse |-> modifier]

(***************************************************************************)
(* The rewriters.  Each takes the upstream http.Response and returns       *)
(* [err, panic, rw, o].                                                    *)
(***************************************************************************)
\* --- PlaybackInfo JSON ---------------------------------------------------
SerializeSource(ms) == "{Id:" \o ms.ID \o ",Direct:" \o ms.direct \o "}"

RECURSIVE SerializeSources(_)
SerializeSources(sources) ==
    IF sources = <<>> THEN ""
    ELSE SerializeSource(sources[1])
         \o (IF Len(sources) > 1 THEN "," \o SerializeSources(Tail(sources)) ELSE "")

SerializePlaybackInfo(json) == "{MediaSources:[" \o SerializeSources(json.MediaSources) \o "]}"

\* a JSON body: the bytes jsonChain.Result() returns for the document
MkPlaybackInfo(json) ==
    [raw |-> SerializePlaybackInfo(json), json |-> json,
     len |-> Len(SerializePlaybackInfo(json))]

\* the same document as the upstream may send it, with a line break after it
MkPlaybackInfoLn(json) ==
    [raw |-> SerializePlaybackInfo(json) \o "\n", json |-> json,
     len |-> Len(SerializePlaybackInfo(json)) + 1]

\* jsonChain.Result(): the buffer the chain was made from when no Set changed
\* the document, the patched document otherwise
JsonChainResult(body, json) ==
    IF json = body.json THEN body ELSE MkPlaybackInfo(json)

\* processHTTPStrmPlaybackInfo / processAlistStrmPlaybackInfo: the media source at
\* the index is marked direct-playable for its kind
ProcessStrmPlaybackInfo(json, index, kind) ==
    [json EXCEPT !.MediaSources[index].direct = kind]

\* Jellyfin asks Items for the id as it is
JellyfinQueryId(id) == id

\* the id a server's handlers ask Items for and compare media sources by
QueryId(server, id) ==
    IF server = "emby" THEN StripMediaSourcePrefix(id) ELSE JellyfinQueryId(id)

\* the loop over playbackInfoResponse.MediaSources, from index i on.
\* acc = [json, items, panic]
RewritesAnySource(kind) == TRUE

\* the switch on the recognized kind has cases for the two STRM kinds only
RewritesSource(kind) == kind \in {"HTTPStrm", "AlistStrm"}

RECURSIVE PlaybackInfoLoop(_, _, _, _, _)
PlaybackInfoLoop(i, sources, server, env, acc) ==
    IF i > Len(sources) \/ acc.panic THEN acc
    ELSE LET asked == [acc EXCEPT !.items = Append(@, QueryId(server, sources[i].ID))]
             answer == env.sourceItems[i]
         IN  IF answer.err
             THEN PlaybackInfoLoop(i + 1, sources, server, env, asked)
             ELSE IF answer.Items = <<>>
             THEN [asked EXCEPT !.panic = TRUE]       \* itemResponse.Items[0]
             ELSE LET rec == recgonizeStrmFileType(answer.Items[1].Path)
                  IN  PlaybackInfoLoop(i + 1, sources, server, env,
                          IF RewritesSource(rec.kind)
                          THEN [asked EXCEPT !.json =
                                    ProcessStrmPlaybackInfo(@, i, rec.kind)]
                          ELSE asked)

\* what ModifyPlaybackInfo does when json.Unmarshal fails
PlaybackInfoDecodeError(rw, o) ==
    [err |-> TRUE, panic |-> FALSE, rw |-> [rw EXCEPT !.Body = Drained], o |-> o]

ModifyPlaybackInfoWith(server, rw, env, o) ==
    LET body == rw.Body IN
    IF ~body.json.valid                      \* json.Unmarshal fails
    THEN PlaybackInfoDecodeError(rw, o)
    ELSE LET acc == PlaybackInfoLoop(1, body.json.MediaSources, server, env,
                        [json |-> body.json, items |-> o.items, panic |-> FALSE])
             data == JsonChainResult(body, acc.json)
             o1 == [o EXCEPT !.items = acc.items]
         IN  IF acc.panic
             THEN [err |-> FALSE, panic |-> TRUE, rw |-> [rw EXCEPT !.Body = Drained],
                   o |-> o1]
             ELSE [err |-> FALSE, panic |-> FALSE,
                   rw |-> [rw EXCEPT
                             !.Header = HeaderSet(
                                 HeaderSet(@, "Content-Type", "application/json"),
                                 "Content-Length", ToString(data.len)),
                             !.Body = data],
                   o |-> o1]

\* Emby asks Items for the id without its "mediasource_" prefix
EmbyModifyPlaybackInfo(rw, env, o) ==
    ModifyPlaybackInfoWith("emby", rw, env, o)

JellyfinModifyPlaybackInfo(rw, env, o) ==
    ModifyPlaybackInfoWith("jellyfin", rw, env, o)

\* --- basehtmlplayer.js ----------------------------------------------------
\* bytes.ReplaceAll(body, fragment, "null")
ReplaceAllCors(body) ==
    IF body.raw = "player.js:anonymous" THEN MkText("player.js:null") ELSE body

ModifyBaseHtmlPlayer(rw, env, o) ==
    LET body == ReplaceAllCors(rw.Body) IN
    [err |-> FALSE, panic |-> FALSE,
     rw |-> [rw EXCEPT !.Header = HeaderSet(@, "Content-Length", ToString(body.len)),
                       !.Body = body],
     o |-> o]

\* --- subtitles ------------------------------------------------------------
IsSRT(body) == body.raw = "srt:hello"

SRT2ASS(body) == MkText("[Script Info] ass:hello")

ModifySubtitles(rw, env, cfg, o) ==
    IF IsSRT(rw.Body) /\ cfg.SRT2ASS
    THEN LET ass == SRT2ASS(rw.Body) IN
         [err |-> FALSE, panic |-> FALSE,
          rw |-> [rw EXCEPT !.Header = HeaderSet(@, "Content-Length", ToString(ass.len)),
                            !.Body = ass],
          o |-> o]
    ELSE [err |-> FALSE, panic |-> FALSE, rw |-> [rw EXCEPT !.Body = Drained], o |-> o]

\* --- index.html -----------------------------------------------------------
\* bytes.Replace(htmlContent, "</head>", addHEAD, 1)
InjectHead(body, head) ==
    IF body.raw = "<head></head>"
    THEN MkText("<head>" \o head \o "<!-- MediaWarp -->\n</head>")
    ELSE body

LocalIndexHtml == MkText("<head></head>")

ModifyIndex(rw, env, cfg, o) ==
    IF cfg.WebIndex /\ env.fileErr
    THEN [err |-> TRUE, panic |-> FALSE, rw |-> rw, o |-> o]
    ELSE LET html == InjectHead(IF cfg.WebIndex THEN LocalIndexHtml ELSE rw.Body,
                                cfg.WebHead)
         IN  [err |-> FALSE, panic |-> FALSE,
              rw |-> [rw EXCEPT
                        !.Header = HeaderSet(@, "Content-Length", ToString(html.len)),
                        !.Body = html],
              o |-> o]

CallRewriter(name, rw, env, cfg, o) ==
    CASE name = "EmbyModifyPlaybackInfo" -> EmbyModifyPlaybackInfo(rw, env, o)
      [] name = "JellyfinModifyPlaybackInfo" -> JellyfinModifyPlaybackInfo(rw, env, o)
      [] name = "ModifyBaseHtmlPlayer" -> ModifyBaseHtmlPlayer(rw, env, o)
      [] name = "ModifySubtitles" -> ModifySubtitles(rw, env, cfg, o)
      [] name = "ModifyIndex" -> ModifyIndex(rw, env, cfg, o)

(***************************************************************************)
(* ReverseProxy.ServeHTTP: send the request to the upstream; a transport   *)
(* error goes to the ErrorHandler; otherwise ModifyResponse runs, and an   *)
(* error it returns goes to the ErrorHandler too; otherwise the response   *)
(* is copied to the client.                                                *)
(***************************************************************************)
\* whether the proxy hands the upstream's response to its ModifyResponse
InvokesRewriter(proxy, env) == proxy.ModifyResponse # "none" /\ env.up

\* after ModifyResponse returned m = [err, panic, rw, o]
AfterModifyResponse(proxy, m) ==
    IF m.panic THEN Recovered(m.o)
    ELSE IF m.err THEN ErrorHandler(proxy, [m.o EXCEPT !.rewriterErr = TRUE])
    ELSE CopyResponse(m.rw, m.o)

\* after the round trip to the upstream; `sent` records the request
AfterRoundTrip(proxy, env, cfg, sent) ==
    IF ~InvokesRewriter(proxy, env)
    THEN IF ~env.up THEN ErrorHandler(proxy, sent) ELSE CopyResponse(env.resp, sent)
    ELSE AfterModifyResponse(proxy,
             CallRewriter(proxy.ModifyResponse, env.resp, env, cfg,
                          [sent EXCEPT !.rewriters = Append(@, proxy.ModifyResponse)]))

ProxyServeHTTP(proxy, req, env, cfg, o) ==
    AfterRoundTrip(proxy, env, cfg, [o EXCEPT !.upstream = Append(@, req)])

\* handler.ReverseProxy(rw, req): forward to the upstream, untouched
ReverseProxy(req, env, cfg, o) == ProxyServeHTTP(HandlerProxy, req, env, cfg, o)

\* responseModifyCreater(proxy, modifier): proxy.ModifyResponse = modifier, and
\* the handler is proxy.ServeHTTP
responseModifyCreater(modifier, req, env, cfg, o) ==
    ProxyServeHTTP(RewriteProxy(modifier), req, env, cfg, o)

(***************************************************************************)
(* The videos redirect handler.                                            *)
(***************************************************************************)
\* constants.EmbyRegexp.Others.VideoRedirectReg.FindStringSubmatch(path): the
\* canonicalization pattern /videos/{id}/original.ext with the id as its one
\* group.  Element 1 is the text of the whole match (Go's matches[0]), element 2
\* the group (Go's matches[1]); no match gives the empty sequence.
VideoRedirectSubmatch(path) ==
    CASE path = "/videos/42/original.mkv" -> <<"/videos/42/original.mkv", "42">>
      [] path = "/videos/7/original.mp4" -> <<"/videos/7/original.mp4", "7">>
      [] OTHER -> <<>>

\* fmt.Sprintf("/videos/%s/stream", matches[0])
VideoRedirectPath(matches) == "/videos/" \o matches[1] \o "/stream"

\* ctx.Redirect to what the HTTP resolver returned (r) for the content
RedirectResolved(content, r, o) ==
    Redirect(r.url,
             [o EXCEPT !.origin = @ \o r.origin, !.strmCache = r.cache,
                       !.strm = [content |-> content, url |-> r.url,
                                 hit |-> r.hit, failed |-> r.failed]])

\* case constants.HTTPStrm of the switch, for a media source with the asked id
VideosHTTPStrm(ms, req, env, cfg, t, o) ==
    RedirectResolved(ms.Path,
        httpStrmHandler(ms.Path, req.UserAgent, env.origin, cfg, o.strmCache, t), o)

\* what the handler does when alistStrmHandler returns an error
VideosAlistFailed(req, env, cfg, o) == ReverseProxy(req, env, cfg, o)

\* after alistStrmHandler returned r = [err, res, calls]
AfterAlistStrm(r, req, env, cfg, o) ==
    IF r.err THEN VideosAlistFailed(req, env, cfg, [o EXCEPT !.alist = @ \o r.calls])
    ELSE Redirect(r.res.url, [o EXCEPT !.alist = @ \o r.calls])

\* a handler that asks the resolver for the transcode variants too
VideosAlistStrmWithVariants(ms, opt, req, env, cfg, o) ==
    AfterAlistStrm(alistStrmHandler(ms.Path, opt, TRUE, env.alist, cfg), req, env, cfg, o)

\* case constants.AlistStrm
VideosAlistStrm(ms, opt, req, env, cfg, o) ==
    AfterAlistStrm(alistStrmHandler(ms.Path, opt, FALSE, env.alist, cfg), req, env, cfg, o)

\* the loop over item.MediaSources; the server decides how ids are compared.
\* Falling off the end of the loop writes nothing.
RECURSIVE VideosLoop(_, _, _, _, _, _, _, _, _)
\* the body of the loop for the media source ms with the asked id
VideosSwitch(ms, others, server, wanted, rec, req, env, cfg, t, o) ==
    CASE rec.kind = "HTTPStrm" ->
             IF ms.Protocol = "Http"
             THEN VideosHTTPStrm(ms, req, env, cfg, t, o)
             ELSE VideosLoop(others, server, wanted, rec, req, env, cfg, t, o)
      [] rec.kind = "AlistStrm" -> VideosAlistStrm(ms, rec.opt, req, env, cfg, o)
      [] rec.kind = "UnknownStrm" -> ReverseProxy(req, env, cfg, o)

VideosLoop(sources, server, wanted, rec, req, env, cfg, t, o) ==
    IF sources = <<>> THEN o
    ELSE IF QueryId(server, Head(sources).ID) # wanted
    THEN VideosLoop(Tail(sources), server, wanted, rec, req, env, cfg, t, o)
    ELSE VideosSwitch(Head(sources), Tail(sources), server, wanted, rec, req, env, cfg,
                      t, o)

\* a handler that gives up when the Items query fails
VideosItemsFailedAborts(req, env, cfg, o) == Recovered(o)

\* what the handler does when ItemsServiceQueryItem returns an error
VideosItemsFailed(req, env, cfg, o) == ReverseProxy(req, env, cfg, o)

\* from the Items query on: common to Emby and Jellyfin
VideosAfterCanonical(server, req, env, cfg, t, o) ==
    LET mediaSourceID == QueryGet(req.Query, "mediasourceid")
        wanted == QueryId(server, mediaSourceID)
        o1 == [o EXCEPT !.items = Append(@, wanted)]
    IN  IF env.items.err THEN VideosItemsFailed(req, env, cfg, o1)
        ELSE IF env.items.Items = <<>> THEN Recovered(o1)      \* itemResponse.Items[0]
        ELSE LET item == env.items.Items[1] IN
             IF ~HasSuffixStrm(ToLower(item.Path))
             THEN ReverseProxy(req, env, cfg, o1)
             ELSE VideosLoop(item.MediaSources, server, wanted,
                             recgonizeStrmFileType(item.Path), req, env, cfg, t, o1)

EmbyVideosHandler(req, env, cfg, t, o) ==
    IF req.Method = "HEAD" THEN ReverseProxy(req, env, cfg, o)
    ELSE LET matches == VideoRedirectSubmatch(req.Path) IN
         IF Len(matches) = 2
         THEN Redirect(VideoRedirectPath(matches), o)
         ELSE VideosAfterCanonical("emby", req, env, cfg, t, o)

JellyfinVideosHandler(req, env, cfg, t, o) ==
    IF req.Method = "HEAD" THEN ReverseProxy(req, env, cfg, o)
    ELSE VideosAfterCanonical("jellyfin", req, env, cfg, t, o)

(***************************************************************************)
(* The route tables.  A compiled regexp is the set of strings it matches.  *)
(***************************************************************************)
MatchString(regexp, str) == str \in regexp

Rule(regexp, handler) == [Regexp |-> regexp, Handler |-> handler]

\* config.Web.Enable && (config.Web.Index || config.Web.Head != "")
\* (the other web options, ExternalPlayerUrl and VideoTogether, are off)
WebRuleOn(cfg) == cfg.WebEnable /\ (cfg.WebIndex \/ cfg.WebHead # "")

SubtitleRuleOn(cfg) == cfg.SubtitleEnable /\ cfg.SRT2ASS

\* NewEmbyServerHandler: the handlers of the table, in order
EmbyHandlers(cfg) ==
    <<"EmbyVideosHandler", "EmbyModifyPlaybackInfo", "ModifyBaseHtmlPlayer">>
    \o (IF WebRuleOn(cfg) THEN <<"ModifyIndex">> ELSE <<>>)
    \o (IF SubtitleRuleOn(cfg) THEN <<"ModifySubtitles">> ELSE <<>>)

\* NewJellyfinHandler
JellyfinHandlers(cfg) ==
    <<"JellyfinModifyPlaybackInfo", "JellyfinVideosHandler">>
    \o (IF WebRuleOn(cfg) THEN <<"ModifyIndex">> ELSE <<>>)

TableHandlers(cfg) ==
    IF cfg.MediaServer = "emby" THEN EmbyHandlers(cfg) ELSE JellyfinHandlers(cfg)

\* the tables a constructor can build: the handlers are the constructor's, the
\* regexps are those of the constants package, any of the family
RuleTables(cfg, family) ==
    {[i \in 1..Len(TableHandlers(cfg)) |-> Rule(res[i], TableHandlers(cfg)[i])] :
        res \in [1..Len(TableHandlers(cfg)) -> family]}

(***************************************************************************)
(* The pre-middleware chain of the router.                                 *)
(***************************************************************************)
\* QueryKeyCaseInsensitive: the selected query keys are lower-cased
LowerKey(k) ==
    CASE k = "MediaSourceId" -> "mediasourceid"
      [] OTHER -> k

QueryKeyCaseInsensitive(req) ==
    [req EXCEPT !.Query = [i \in DOMAIN req.Query |->
                              [k |-> LowerKey(req.Query[i].k), v |-> req.Query[i].v]]]

\* DisableCompression: the client's Accept-Encoding is dropped
DisableCompression(req) == [req EXCEPT !.AcceptEncoding = ""]

\* the handler a rule names, run on the request
RunHandler(handler, req, env, cfg, t, o) ==
    CASE handler = "EmbyVideosHandler" -> EmbyVideosHandler(req, env, cfg, t, o)
      [] handler = "JellyfinVideosHandler" -> JellyfinVideosHandler(req, env, cfg, t, o)
      [] OTHER -> responseModifyCreater(handler, req, env, cfg, o)

\* middlewareChain.Execute(rule.Handler)(ctx)
MiddlewareChainExecute(handler, req, env, cfg, t, o) ==
    RunHandler(handler, DisableCompression(QueryKeyCaseInsensitive(req)), env, cfg, t,
               [o EXCEPT !.chain = TRUE, !.handlers = Append(@, handler)])

(***************************************************************************)
(* getRegexpRouterHandler.                                                 *)
(***************************************************************************)
\* the string the rules are matched against
RouterSubject(req) == req.Path

\* the index of the rule the loop stops at, from rule i on; 0 when it runs out
RECURSIVE MatchFrom(_, _, _)
MatchFrom(rules, subject, i) ==
    IF i > Len(rules) THEN 0
    ELSE IF MatchString(rules[i].Regexp, subject) THEN i
    ELSE MatchFrom(rules, subject, i + 1)

\* a loop that does not stop at its first match: the last matching rule wins
LastMatchedRule(rules, subject) ==
    LET M == {i \in DOMAIN rules : MatchString(rules[i].Regexp, subject)}
    IN  IF M = {} THEN 0 ELSE CHOOSE i \in M : \A j \in M : j <= i

MatchedRule(rules, subject) == MatchFrom(rules, subject, 1)

\* a fallback that runs behind the pre-middleware chain as the rules do
UnmatchedThroughChain(req, env, cfg, o) ==
    ReverseProxy(DisableCompression(QueryKeyCaseInsensitive(req)), env, cfg,
                 [o EXCEPT !.chain = TRUE, !.handlers = Append(@, "ReverseProxy")])

\* the branch after the loop: no rule matched
Unmatched(req, env, cfg, o) ==
    ReverseProxy(req, env, cfg, [o EXCEPT !.handlers = Append(@, "ReverseProxy")])

getRegexpRouterHandler(rules, req, env, cfg, t, o) ==
    LET i == MatchedRule(rules, RouterSubject(req)) IN
    IF i # 0
    THEN MiddlewareChainExecute(rules[i].Handler, req, env, cfg, t, o)
    ELSE Unmatched(req, env, cfg, o)

(***************************************************************************)
(* The cache middleware (ImageCache, SubtitleCache, getCacheBaseFunc).     *)
(***************************************************************************)
maxCacheSize == 262144      \* 256 * 1024

CacheKeyIgnoreQuery ==
    {"api_key", "starttimeticks", "x-playback-session-id", "playsessionid", "tag"}

CacheHeaderWhitelist ==
    {"Content-Type", "Content-Length", "Cache-Control", "ETag", "Content-Disposition"}

\* the byte order of the strings that occur in the model's queries
StrRank(str) ==
    CASE str = "300" -> 1
      [] str = "90" -> 2
      [] str = "MediaSourceId" -> 3
      [] str = "Tag" -> 4
      [] str = "abc" -> 5
      [] str = "api_key" -> 6
      [] str = "maxwidth" -> 7
      [] str = "mediasourceid" -> 8
      [] str = "quality" -> 9
      [] str = "tag" -> 10
      [] str = "xyz" -> 11
      [] OTHER -> 0

StrLess(a, b) == StrRank(a) < StrRank(b)

\* a set of strings as the sorted sequence sort.Strings makes
RECURSIVE SortedSeq(_)
SortedSeq(S) ==
    IF S = {} THEN <<>>
    ELSE LET m == CHOOSE x \in S : \A y \in S : ~StrLess(y, x)
         IN  <<m>> \o SortedSeq(S \ {m})

\* the values of a key, in the order sent, then sorted
RECURSIVE ValuesOf(_, _)
ValuesOf(q, key) ==
    IF q = <<>> THEN <<>>
    ELSE (IF q[1].k = key THEN <<q[1].v>> ELSE <<>>) \o ValuesOf(Tail(q), key)

\* the values of a key in the order sent: what Encode would emit without the
\* sort.Strings loop
UnsortedValues(q, key) == ValuesOf(q, key)

\* sort.Strings(values)
SortedValues(q, key) == SortSeq(ValuesOf(q, key), StrLess)

\* url.Values.Encode: the keys in sorted order, each with its values
RECURSIVE EncodeValues(_, _)
EncodeValues(q, keys) ==
    IF keys = <<>> THEN <<>>
    ELSE [i \in 1..Len(SortedValues(q, keys[1])) |->
             [k |-> keys[1], v |-> SortedValues(q, keys[1])[i]]]
         \o EncodeValues(q, Tail(keys))

\* the keys that take part in the cache key
KeptKeys(q) == {q[i].k : i \in DOMAIN q} \ CacheKeyIgnoreQuery

getCacheKey(req) ==
    req.Path \o EncodeQuery(EncodeValues(req.Query, SortedSeq(KeptKeys(req.Query))))

\* a header map that keeps every header the chain set
EveryHeader(header) == header

\* the header map of a cache entry: the whitelisted headers that are set
SimplifiedHeader(header) ==
    [h \in HeaderNames |-> IF h \in CacheHeaderWhitelist THEN header[h] ELSE ""]

CacheData(code, header, body) ==
    [StatusCode |-> code, Header |-> SimplifiedHeader(header), Body |-> body]

\* a middleware that records the 2xx responses of any size
CacheableAnySize(code, body) == code >= 200 /\ code < 300

\* whether the response the chain produced is recorded
Cacheable(code, body) ==
    /\ code >= 200 /\ code < 300
    /\ ~(body.len > maxCacheSize)

\* What a pool holds under a key is the JSON of a CacheData, written here as
\* the CacheData it decodes to.  CorruptBytes is a value json.Unmarshal rejects.
CorruptBytes == [corrupt |-> TRUE]

ParseCacheData(data) == [err |-> "corrupt" \in DOMAIN data, cacheData |-> data]

\* a replay that sets the status and the headers and writes no body
WriteStatusAndHeader(entry, o) ==
    [o EXCEPT !.resp = Response(entry.StatusCode, entry.Header, NoBody),
              !.written = @ + 1]

\* CacheData.WriteResponse and ctx.Abort()
WriteCached(entry, o) ==
    [o EXCEPT !.resp = Response(entry.StatusCode, entry.Header, entry.Body),
              !.written = @ + 1]

\* ctx.Next() in a NoRoute chain: the handlers behind the middleware, which
\* end in the regexp router
ctxNext(rules, req, env, cfg, t, o) == getRegexpRouterHandler(rules, req, env, cfg, t, o)

\* a middleware that answers 500 when the Set of a recordable response fails
AfterNextFailsOnSetError(pool, cacheKey, env, t, o2) ==
    IF Cacheable(o2.resp.StatusCode, o2.resp.Body)
    THEN IF env.setOk
         THEN [o |-> [o2 EXCEPT !.mw.set = "ok"],
               pool |-> CacheSet(pool, cacheKey,
                            CacheData(o2.resp.StatusCode, o2.resp.Header, o2.resp.Body),
                            t)]
         ELSE [o |-> [o2 EXCEPT !.mw.set = "failed",
                                !.resp = Response(500, NoHeader, NoBody)],
               pool |-> pool]
    ELSE [o |-> o2, pool |-> pool]

\* after ctx.Next(): o2 holds the status and the body the chain wrote.
\* env.setOk is whether cachePool.Set succeeds.
AfterNext(pool, cacheKey, env, t, o2) ==
    IF Cacheable(o2.resp.StatusCode, o2.resp.Body)
    THEN IF env.setOk
         THEN [o |-> [o2 EXCEPT !.mw.set = "ok"],
               pool |-> CacheSet(pool, cacheKey,
                            CacheData(o2.resp.StatusCode, o2.resp.Header, o2.resp.Body),
                            t)]
         ELSE [o |-> [o2 EXCEPT !.mw.set = "failed"], pool |-> pool]
    ELSE [o |-> o2, pool |-> pool]

\* cachePool.Get found the key and ParseCacheData decoded what it holds
HitsCache(pool, key) ==
    CacheHas(pool, key) /\ ~ParseCacheData(CacheGet(pool, key)).err

\* the handler getCacheBaseFunc returns.  Returns [o, pool]: the call's record
\* and the pool afterwards.
getCacheBaseFunc(pool, rules, req, env, cfg, t, o) ==
    IF HitsCache(pool, getCacheKey(req))
    THEN [o |-> WriteCached(ParseCacheData(CacheGet(pool, getCacheKey(req))).cacheData,
                    [o EXCEPT !.mw.key = getCacheKey(req), !.mw.read = TRUE,
                              !.mw.hit = TRUE]),
          pool |-> pool]
    ELSE AfterNext(pool, getCacheKey(req), env, t,
             ctxNext(rules, req, env, cfg, t,
                     [o EXCEPT !.mw.key = getCacheKey(req), !.mw.read = TRUE,
                               !.mw.parseErr = CacheHas(pool, getCacheKey(req)),
                               !.mw.next = TRUE]))

\* a middleware that looks at the path alone
CacheAppliesToAnyMethod(reg, req) == MatchString(reg, req.Path)

\* whether the middleware handles the request itself
CacheApplies(reg, req) == req.Method = "GET" /\ MatchString(reg, req.Path)

\* ImageCache / SubtitleCache: the handler around getCacheBaseFunc
CacheMiddleware(reg, pool, rules, req, env, cfg, t, o) ==
    IF ~CacheApplies(reg, req)
    THEN [o |-> ctxNext(rules, req, env, cfg, t, [o EXCEPT !.mw.next = TRUE]),
          pool |-> pool]
    ELSE getCacheBaseFunc(pool, rules, req, env, cfg, t, o)

(***************************************************************************)
(* The inputs of the calls.                                                *)
(***************************************************************************)
\* --- what the outside answers ---------------------------------------------
MediaSource(id, path, protocol) == [ID |-> id, Path |-> path, Protocol |-> protocol]

Item(path, sources) == [Path |-> path, MediaSources |-> sources]

ItemsErr == [err |-> TRUE, Items |-> <<>>]
ItemsOf(items) == [err |-> FALSE, Items |-> items]

OriginErr == [err |-> TRUE, location |-> ""]
OriginLocation(location) == [err |-> FALSE, location |-> location]

Origins == {OriginErr, OriginLocation("https://cdn.example/abc"), OriginLocation("")}

FsGetErr == [err |-> TRUE, RawURL |-> "", Sign |-> "", Size |-> 0]
FsGetOk(sign) == [err |-> FALSE, RawURL |-> "https://oss/x", Sign |-> sign, Size |-> 5000]

PreviewErr == [err |-> TRUE, tasks |-> <<>>]

Alist(client, fsget, preview) ==
    [client |-> client, fsget |-> fsget, preview |-> preview, basePath |-> "/base"]

UpstreamHeader(contentType, body) ==
    [h \in HeaderNames |->
        CASE h = "Content-Type" -> contentType
          [] h = "Content-Length" -> ToString(body.len)
          [] h = "ETag" -> "\"v1\""
          [] h = "Connection" -> "keep-alive"
          [] h = "X-Upstream" -> "emby"
          [] OTHER -> ""]

Upstream(status, contentType, body) ==
    Response(status, UpstreamHeader(contentType, body), body)

PlaybackSource(id) == [ID |-> id, direct |-> ""]

PlaybackInfoBody(ids) ==
    MkPlaybackInfo([valid |-> TRUE,
                    MediaSources |-> [i \in DOMAIN ids |-> PlaybackSource(ids[i])]])

PlaybackInfoBodyLn(ids) ==
    MkPlaybackInfoLn([valid |-> TRUE,
                      MediaSources |-> [i \in DOMAIN ids |-> PlaybackSource(ids[i])]])

Env(up, resp, items, origin, alist, sourceItems, fileErr, setOk) ==
    [up |-> up, resp |-> resp, items |-> items, origin |-> origin, alist |-> alist,
     sourceItems |-> sourceItems, fileErr |-> fileErr, setOk |-> setOk]

\* --- the configuration ---------------------------------------------------
Config0 ==
    [MediaServer |-> "emby", WebEnable |-> FALSE, WebIndex |-> FALSE, WebHead |-> "",
     SubtitleEnable |-> FALSE, SRT2ASS |-> FALSE,
     FinalURL |-> FALSE, CacheEnable |-> FALSE, HTTPStrmTTL |-> 0, ImageTTL |-> 0,
     SubtitleTTL |-> 0, AlistAPITTL |-> 0,
     RawURL |-> FALSE]

(***************************************************************************)
(* The router: requests through getRegexpRouterHandler.                    *)
(***************************************************************************)
RouterPaths == {"/videos/42/stream", "/Items/42/PlaybackInfo"}

RouterQueries == {<<>>, <<[k |-> "MediaSourceId", v |-> "42"]>>}

RouterRequests ==
    {Request(m, p, q, "vlc", "gzip") :
        m \in {"GET", "HEAD"}, p \in RouterPaths, q \in RouterQueries}

\* the regexps of the tables: one anchored on a path, one not anchored at its
\* end (it matches the path with a query string behind it too)
RouterRegexps ==
    {{"/videos/42/stream"},
     {"/Items/42/PlaybackInfo", "/Items/42/PlaybackInfo?MediaSourceId=42"}}

RouterConfigs ==
    {Config0,
     [Config0 EXCEPT !.WebEnable = TRUE, !.WebHead = "<style/>",
                     !.SubtitleEnable = TRUE, !.SRT2ASS = TRUE],
     [Config0 EXCEPT !.MediaServer = "jellyfin"]}

RouterResponses ==
    {Upstream(200, "application/json", PlaybackInfoBodyLn(<<"mediasource_42", "7">>)),
     Upstream(200, "text/html", MkText("<html>starting</html>")),
     Upstream(404, "application/json", PlaybackInfoBody(<<>>))}

HTTPItem ==
    Item("/media/h.strm", <<MediaSource("42", "http://origin.example/vid.mp4", "Http")>>)

UnknownItem == Item("/media/movie.mkv", <<MediaSource("7", "/media/movie.mkv", "File")>>)

RouterEnvs ==
    {Env(up, resp, items, OriginErr, Alist(FALSE, FsGetErr, PreviewErr), sourceItems,
         FALSE, TRUE) :
        up \in BOOLEAN, resp \in RouterResponses,
        items \in {ItemsErr, ItemsOf(<<HTTPItem>>)},
        sourceItems \in {<<ItemsErr, ItemsErr>>,
                         <<ItemsOf(<<HTTPItem>>), ItemsOf(<<UnknownItem>>)>>,
                         <<ItemsOf(<<UnknownItem>>), ItemsOf(<<UnknownItem>>)>>}}

\* an unreachable upstream answers no Items query either
Reachable(env) == env.up \/ (env.items.err /\ \A i \in DOMAIN env.sourceItems :
                                                  env.sourceItems[i].err)

InitCommon ==
    /\ httpStrmCache = EmptyCache
    /\ cachePool = EmptyCache
    /\ now = 0
    /\ last = Out0
    /\ resolved = EmptyCache
    /\ recorded = EmptyCache
    /\ token = NoToken
    /\ mutex = Unlocked
    /\ calls = <<>>
    /\ installed = {}
    /\ alistCache = EmptyCache

InitRouter ==
    /\ config \in RouterConfigs
    /\ routerRules \in RuleTables(config, RouterRegexps)
    /\ InitCommon

\* the call is over: its record, and the resolver's cache as the call left it
Served(out) ==
    /\ last' = [out EXCEPT !.strmCache = EmptyCache]
    /\ httpStrmCache' = out.strmCache

\* one request through the router
RouterServe ==
    \E req \in RouterRequests, env \in RouterEnvs :
        /\ Reachable(env)
        /\ Served(getRegexpRouterHandler(routerRules, req, env, config, now,
                      [Out0 EXCEPT !.op = "router", !.req = req, !.env = env,
                                   !.strmCache = httpStrmCache]))
        /\ UNCHANGED <<config, routerRules, cachePool, now, resolved, recorded, alistVars>>

NextRouter == RouterServe

SpecRouter == InitRouter /\ [][NextRouter]_vars

(***************************************************************************)
(* Properties of the router and of the proxies behind it.                  *)
(***************************************************************************)
PlaybackInfoRewriters == {"EmbyModifyPlaybackInfo", "JellyfinModifyPlaybackInfo"}

\* the rules whose regexp matches the path of the last request
MatchingRules == {i \in DOMAIN routerRules : last.req.Path \in routerRules[i].Regexp}

FirstMatching == CHOOSE i \in MatchingRules : \A j \in MatchingRules : i <= j

\* C1: when the upstream's PlaybackInfo body is not valid JSON, ModifyPlaybackInfo
\* returns success and the client receives the upstream's bytes, not a 5xx made
\* by the proxy.
C1_InvalidJSONPassesThrough ==
    (/\ last.op = "router"
     /\ last.rewriters # <<>>
     /\ last.rewriters[1] \in PlaybackInfoRewriters
     /\ ~last.env.resp.Body.json.valid)
    => /\ ~last.rewriterErr
       /\ last.resp.Body = last.env.resp.Body
       /\ last.resp.StatusCode = last.env.resp.StatusCode

\* C2: when the upstream is unreachable, every proxied request, on the
\* passthrough path or on a rewriter path, is answered 502 with the fixed JSON
\* error body, and no rewriter is invoked.
C2_Unreachable502WithErrorBody ==
    (/\ last.op = "router"
     /\ ~last.env.up
     /\ last.upstream # <<>>)
    => /\ last.resp.StatusCode = 502
       /\ last.resp.Body = ErrorBody
       /\ last.rewriters = <<>>

\* C3: the router runs exactly one handler per request: that of the first rule,
\* in table order, whose regexp matches the path without the query string; no
\* later matching rule runs, and the plain reverse proxy runs only when no rule
\* matches.
C3_FirstMatchingRuleOnly ==
    last.op = "router"
    => /\ Len(last.handlers) = 1
       /\ IF MatchingRules = {}
          THEN last.handlers[1] = "ReverseProxy"
          ELSE last.handlers[1] = routerRules[FirstMatching].Handler

C3_Witness ==
    /\ last.op = "router"
    /\ Cardinality(MatchingRules) >= 2
    /\ last.req.Query # <<>>
    /\ last.handlers = <<routerRules[FirstMatching].Handler>>
    /\ \E j \in MatchingRules : routerRules[j].Handler # last.handlers[1]

\* C4: a request whose path matches no rule is forwarded to the upstream as it
\* came, and the client gets the upstream's status, its body byte for byte and
\* its headers except the hop-by-hop ones; no rewriter and no pre-middleware
\* runs.
C4_UnmatchedIsPassthrough ==
    (/\ last.op = "router"
     /\ MatchingRules = {}
     /\ last.env.up)
    => /\ last.upstream = <<last.req>>
       /\ last.resp.StatusCode = last.env.resp.StatusCode
       /\ last.resp.Body = last.env.resp.Body
       /\ \A h \in HeaderNames \ HopHeaders :
              last.resp.Header[h] = last.env.resp.Header[h]
       /\ last.rewriters = <<>>
       /\ ~last.chain
       /\ last.written = 1

C4_Witness ==
    /\ last.op = "router"
    /\ MatchingRules = {}
    /\ last.env.up
    /\ last.req.Query # <<>>
    /\ last.req.AcceptEncoding # ""
    /\ last.resp.StatusCode = 404
    /\ last.resp.Header["X-Upstream"] = "emby"

(***************************************************************************)
(* The videos handlers, called directly.                                   *)
(***************************************************************************)
VideoRequests ==
    {Request("GET", "/videos/42/original.mkv", <<>>, "vlc", ""),
     Request("HEAD", "/videos/42/stream", <<[k |-> "mediasourceid", v |-> "42"]>>,
             "vlc", "")}
    \cup {Request("GET", "/videos/42/stream", q, "vlc", "") :
            q \in {<<>>, <<[k |-> "mediasourceid", v |-> "42"]>>,
                   <<[k |-> "mediasourceid", v |-> "mediasource_42"]>>}}

VideoConfigs ==
    {[Config0 EXCEPT !.MediaServer = server, !.RawURL = f.raw, !.FinalURL = f.final,
                     !.CacheEnable = f.cache, !.HTTPStrmTTL = IF f.cache THEN 2 ELSE 0] :
        server \in {"emby", "jellyfin"},
        f \in {[raw |-> FALSE, final |-> FALSE, cache |-> FALSE],
               [raw |-> TRUE, final |-> FALSE, cache |-> TRUE],
               [raw |-> FALSE, final |-> TRUE, cache |-> FALSE],
               [raw |-> FALSE, final |-> TRUE, cache |-> TRUE]}}

\* the media sources of a .strm item: their Path is the content of the file
HTTPSources ==
    {MediaSource("mediasource_42", "http://origin.example/low.mp4", "File"),
     MediaSource("42", "http://origin.example/vid.mp4", "Http")}

AlistSources ==
    {MediaSource("mediasource_42", "/movies/low.mkv", "File"),
     MediaSource("42", "/movies/vid.mkv", "Http")}

VideoItems ==
    {ItemsErr, ItemsOf(<<>>),
     ItemsOf(<<Item("/media/movie.mkv", <<MediaSource("42", "/media/movie.mkv", "File")>>)>>)}
    \cup {ItemsOf(<<Item("/media/h.strm", srcs)>>) : srcs \in SeqsUpTo(HTTPSources, MaxSources)}
    \cup {ItemsOf(<<Item(p, srcs)>>) :
            p \in {"/media/A.STRM", "/media/u.strm"},
            srcs \in SeqsUpTo(AlistSources, MaxSources)}

VideoAlists ==
    {Alist(FALSE, FsGetErr, PreviewErr), Alist(TRUE, FsGetErr, PreviewErr),
     Alist(TRUE, FsGetOk("s"), PreviewErr)}

ItemPathOf(items) == IF items.Items = <<>> THEN "" ELSE items.Items[1].Path

\* the answers of the origin and of Alist vary where the handler asks them
VideoEnvs ==
    {e \in {Env(up, Upstream(200, "video/mp4", MkText("<video bytes>")), items,
                origin, alist, <<>>, FALSE, TRUE) :
              up \in BOOLEAN, items \in VideoItems, origin \in Origins,
              alist \in VideoAlists} :
        /\ Reachable(e)
        /\ ItemPathOf(e.items) # "/media/h.strm" => e.origin = OriginErr
        /\ ItemPathOf(e.items) # "/media/A.STRM" => ~e.alist.client}

InitVideos ==
    /\ config \in VideoConfigs
    /\ routerRules = <<>>
    /\ InitCommon

VideosHandler(req, env, cfg, t, o) ==
    IF cfg.MediaServer = "emby" THEN EmbyVideosHandler(req, env, cfg, t, o)
    ELSE JellyfinVideosHandler(req, env, cfg, t, o)

\* one request to the videos handler of the configured server
VideosServe ==
    \E req \in VideoRequests, env \in VideoEnvs :
        /\ Served(VideosHandler(req, env, config, now,
                      [Out0 EXCEPT !.op = "videos", !.req = req, !.env = env,
                                   !.strmCache = httpStrmCache]))
        /\ UNCHANGED <<config, routerRules, cachePool, now, resolved, recorded, alistVars>>

NextVideos == VideosServe

SpecVideos == InitVideos /\ [][NextVideos]_vars

(***************************************************************************)
(* Properties of the videos handlers.                                      *)
(***************************************************************************)
\* the last request was one the Emby handler answers by canonicalization
Canonical == config.MediaServer = "emby" /\ VideoRedirectSubmatch(last.req.Path) # <<>>

\* the last call reached the Items query
AsksItems == last.op = "videos" /\ last.req.Method # "HEAD" /\ ~Canonical

AskedItem == last.env.items.Items[1]

AnsweredStrm ==
    /\ AsksItems
    /\ ~last.env.items.err
    /\ last.env.items.Items # <<>>
    /\ HasSuffixStrm(ToLower(AskedItem.Path))

\* how the configured server compares media source ids
SameId(a, b) ==
    IF config.MediaServer = "emby"
    THEN StripMediaSourcePrefix(a) = StripMediaSourcePrefix(b)
    ELSE a = b

\* the media sources of the item with the id the request asks for
AskedSources ==
    {i \in DOMAIN AskedItem.MediaSources :
        SameId(AskedItem.MediaSources[i].ID, QueryGet(last.req.Query, "mediasourceid"))}

AskedHTTPSources == {i \in AskedSources : AskedItem.MediaSources[i].Protocol = "Http"}

Least(S) == CHOOSE i \in S : \A j \in S : i <= j

AskedKind == recgonizeStrmFileType(AskedItem.Path).kind

RedirectedTo(location) ==
    /\ last.resp.StatusCode = 302
    /\ last.resp.Header["Location"] = location
    /\ last.upstream = <<>>
    /\ last.written = 1

PassedThroughOnce ==
    /\ last.upstream = <<last.req>>
    /\ last.written = 1
    /\ ~last.panic
    /\ IF last.env.up
       THEN /\ last.resp.StatusCode = last.env.resp.StatusCode
            /\ last.resp.Body = last.env.resp.Body
       ELSE last.resp.StatusCode = 502

AlistFails == ~last.env.alist.client \/ last.env.alist.fsget.err

\* the URL the Alist resolver makes for a path without asking for variants
AlistURL(path) ==
    IF config.RawURL THEN last.env.alist.fsget.RawURL
    ELSE AlistAddr
         \o (IF last.env.alist.fsget.Sign # "" THEN "?sign=" \o last.env.alist.fsget.Sign
             ELSE "")
         \o "/d" \o last.env.alist.basePath \o path

\* C5: for a non-HEAD request whose item path ends in .strm and whose media
\* source has the requested id: an HTTP STRM with an HTTP media source is
\* answered 302 to the HTTP resolver's result for the media source path (the
\* path itself when final-URL resolution is off); an Alist STRM is answered 302
\* to the Alist-resolved URL, asked for without transcode variants; an unknown
\* kind is passed through to the upstream.
C5_StrmRedirects ==
    (AnsweredStrm /\ AskedSources # {})
    => CASE AskedKind = "HTTPStrm" ->
              AskedHTTPSources # {}
              => LET ms == AskedItem.MediaSources[Least(AskedHTTPSources)] IN
                 /\ RedirectedTo(last.strm.url)
                 /\ last.strm.content = ms.Path
                 /\ IF ~config.FinalURL
                    THEN last.strm.url = ms.Path /\ last.origin = <<>>
                    ELSE \/ last.strm.hit /\ last.origin = <<>>
                         \/ /\ last.origin = <<[url |-> ms.Path, ua |-> last.req.UserAgent]>>
                            /\ ~last.env.origin.err
                               => last.strm.url = IF last.env.origin.location = ""
                                                  THEN ms.Path
                                                  ELSE last.env.origin.location
         [] AskedKind = "AlistStrm" ->
              ~AlistFails
              => /\ RedirectedTo(AlistURL(AskedItem.MediaSources[Least(AskedSources)].Path))
                 /\ last.alist = <<"FsGet">>
         [] OTHER -> PassedThroughOnce /\ last.rewriters = <<>>

C5_Witness ==
    /\ AnsweredStrm
    /\ Cardinality(AskedSources) = 2
    /\ AskedKind = "AlistStrm"
    /\ ~AlistFails
    /\ last.resp.StatusCode = 302
    /\ last.alist = <<"FsGet">>

\* C6: a request path matching the canonicalization pattern is answered 302
\* with Location exactly /videos/{id}/stream, {id} being the captured
\* identifier, and no Items query is made.
C6_CanonicalRedirect ==
    (last.op = "videos" /\ last.req.Method # "HEAD" /\ Canonical)
    => /\ RedirectedTo("/videos/" \o VideoRedirectSubmatch(last.req.Path)[2] \o "/stream")
       /\ last.items = <<>>

\* C31: every non-HEAD request handled by VideosHandler gets exactly one
\* outcome, a 302 redirect or a passthrough to the upstream; the handler never
\* returns without responding, including when no media source of the item
\* matches mediasourceid or when an HTTP-kind media source has a non-HTTP
\* protocol.
C31_ExactlyOneOutcome ==
    (last.op = "videos" /\ last.req.Method # "HEAD")
    => /\ last.written = 1
       /\ \/ last.resp.StatusCode = 302 /\ last.upstream = <<>>
          \/ PassedThroughOnce /\ last.resp.StatusCode # 302

\* C7: when the Items query fails, or the Alist resolver fails, the handler
\* answers neither an error nor a redirect of its own: the request is passed
\* through to the upstream reverse proxy exactly once.
C7_FailuresPassThrough ==
    (\/ AsksItems /\ last.env.items.err
     \/ AnsweredStrm /\ AskedSources # {} /\ AskedKind = "AlistStrm" /\ AlistFails)
    => PassedThroughOnce /\ last.resp.StatusCode # 302

C7_Witness ==
    /\ AnsweredStrm
    /\ AskedSources # {}
    /\ AskedKind = "AlistStrm"
    /\ last.env.alist.client
    /\ last.env.alist.fsget.err
    /\ last.env.up
    /\ last.upstream = <<last.req>>
    /\ last.resp.StatusCode = 200

(***************************************************************************)
(* The HTTP STRM resolver, called directly, with its cache ageing.         *)
(***************************************************************************)
StrmContents == {"http://origin.example/vid.mp4", "http://origin.example/low.mp4"}

StrmConfigs ==
    {[Config0 EXCEPT !.FinalURL = final, !.CacheEnable = cache, !.HTTPStrmTTL = ttl] :
        final \in BOOLEAN, cache \in BOOLEAN, ttl \in {0, 2}}

InitStrm ==
    /\ config \in StrmConfigs
    /\ routerRules = <<>>
    /\ InitCommon

\* history: what is known of the content from a successful resolution less
\* than the TTL ago
PriorResolution(content) ==
    IF content \in DOMAIN resolved /\ now - resolved[content].at < config.HTTPStrmTTL
    THEN [known |-> TRUE, url |-> resolved[content].val]
    ELSE [known |-> FALSE, url |-> ""]

\* one invocation of the closure getHTTPStrmHandler returns
StrmResolve ==
    \E content \in StrmContents, origin \in Origins :
        LET r == httpStrmHandler(content, "vlc", origin, config, httpStrmCache, now)
            resolvedNow == config.FinalURL /\ ~r.hit /\ ~r.failed
        IN  /\ httpStrmCache' = r.cache
            /\ last' = [Out0 EXCEPT !.op = "strm", !.env.origin = origin,
                                    !.origin = r.origin,
                                    !.strm = [content |-> content, url |-> r.url,
                                              hit |-> r.hit, failed |-> r.failed],
                                    !.prior = PriorResolution(content)]
            /\ resolved' = IF resolvedNow THEN CacheSet(resolved, content, r.url, now)
                           ELSE resolved
            /\ UNCHANGED <<config, routerRules, cachePool, now, recorded, alistVars>>

\* time passes
Tick ==
    /\ now < MaxTime
    /\ now' = now + 1
    /\ UNCHANGED <<config, routerRules, httpStrmCache, cachePool, last, resolved, recorded, alistVars>>

\* the cleaner of the resolver's cache removes what is older than the TTL
CleanStrmCache ==
    /\ httpStrmCache' = CacheClean(httpStrmCache, config.HTTPStrmTTL, now)
    /\ httpStrmCache' # httpStrmCache
    /\ UNCHANGED <<config, routerRules, cachePool, now, last, resolved, recorded, alistVars>>

NextStrm == StrmResolve \/ Tick \/ CleanStrmCache

SpecStrm == InitStrm /\ [][NextStrm]_vars

\* C8: with final-URL resolution on, when the resolution fails the resolver
\* returns the input content unchanged.
C8_FailureReturnsContent ==
    (last.op = "strm" /\ config.FinalURL /\ last.strm.failed)
    => last.strm.url = last.strm.content

\* C33: the HTTP STRM resolver writes to its URL cache only a URL obtained from
\* a successful final-URL resolution; a failed resolution leaves the cache
\* unchanged, so that a later invocation with the same content contacts the
\* origin again instead of replaying the failure.
C33_OnlySuccessfulResolutionsCached ==
    [][\A c \in StrmContents :
           (~CacheHas(httpStrmCache, c) /\ CacheHas(httpStrmCache', c))
           => /\ last'.op = "strm"
              /\ last'.strm.content = c
              /\ ~last'.strm.failed]_vars

ImageRegexp == {"/Items/42/Images/Primary"}

\* constants.EmbyRegexp.Cache.Subtitle, as the paths of the model it matches
SubtitleCacheRegexp == {"/Videos/42/sub/Subtitles/3/Stream.srt"}

CacheConfig == [Config0 EXCEPT !.CacheEnable = TRUE, !.ImageTTL = 2]

\* InitRouter installs the middleware whose TTL is positive
CacheConfigs == {CacheConfig, [Config0 EXCEPT !.CacheEnable = TRUE, !.SubtitleTTL = 2]}

CacheRegexp(cfg) == IF cfg.ImageTTL > 0 THEN ImageRegexp ELSE SubtitleCacheRegexp

CacheTTL(cfg) == IF cfg.ImageTTL > 0 THEN cfg.ImageTTL ELSE cfg.SubtitleTTL

CacheRequests ==
    {Request("GET", "/Items/42/Images/Primary", q, "chrome", "gzip") :
        q \in {<<[k |-> "tag", v |-> "abc"], [k |-> "maxwidth", v |-> "300"]>>,
               <<[k |-> "maxwidth", v |-> "300"], [k |-> "tag", v |-> "xyz"]>>,
               <<[k |-> "maxwidth", v |-> "90"]>>}}
    \cup {Request(m, "/Videos/42/sub/Subtitles/3/Stream.srt", <<>>, "chrome", "gzip") :
              m \in {"GET", "POST"}}

ImageBody(raw, len) == [raw |-> raw, json |-> NotJSON, len |-> len]

CacheResponses ==
    {Upstream(200, "image/webp", ImageBody("<thumbnail>", 10240)),
     Upstream(200, "image/png", ImageBody("<poster>", maxCacheSize)),
     Upstream(200, "image/png", ImageBody("<backdrop>", maxCacheSize + 1)),
     Upstream(404, "text/plain", MkText("not found"))}

\* a failing Set matters for a response the middleware records
CacheEnvs ==
    {e \in {Env(up, resp, ItemsErr, OriginErr, Alist(FALSE, FsGetErr, PreviewErr), <<>>,
                FALSE, setOk) :
              up \in BOOLEAN, resp \in CacheResponses, setOk \in BOOLEAN} :
        /\ ~e.up => e.resp.StatusCode = 404 /\ e.setOk
        /\ ~e.setOk => e.resp.StatusCode = 200 /\ e.resp.Body.len < maxCacheSize}

InitCache ==
    /\ config \in CacheConfigs
    /\ routerRules \in RuleTables(config, {{"/videos/42/stream"}})
    /\ InitCommon

\* the call went through the middleware to the chain and came back with a
\* response that is not 2xx or is larger than 256 KiB
Refused(o) ==
    /\ o.op = "cache"
    /\ o.mw.read
    /\ o.mw.next
    /\ \/ o.resp.StatusCode < 200
       \/ o.resp.StatusCode >= 300
       \/ o.resp.Body.len > 256 * 1024

\* history: what a GET with the request's cache key was answered on a miss that
\* recorded its response less than the TTL ago
RecordedBefore(req) ==
    IF /\ req.Method = "GET"
       /\ getCacheKey(req) \in DOMAIN recorded
       /\ now - recorded[getCacheKey(req)].at < CacheTTL(config)
    THEN [known |-> TRUE, StatusCode |-> recorded[getCacheKey(req)].val.StatusCode,
          Body |-> recorded[getCacheKey(req)].val.Body,
          Range |-> recorded[getCacheKey(req)].val.Range]
    ELSE [known |-> FALSE, StatusCode |-> 0, Body |-> NoBody, Range |-> ""]

\* the call is over: its record and the pool as the middleware left it
ServedThroughCache(r) ==
    /\ last' = r.o
    /\ cachePool' = r.pool
    /\ recorded' = IF r.o.mw.set = "ok"
                   THEN CacheSet(recorded, r.o.mw.key,
                                 [StatusCode |-> r.o.resp.StatusCode,
                                  Body |-> r.o.resp.Body,
                                  Range |-> r.o.req.Range], now)
                   ELSE recorded

\* one request through the middleware and, by ctx.Next(), the router
CacheServe ==
    \E req \in CacheRequests, env \in CacheEnvs :
        /\ ServedThroughCache(
               CacheMiddleware(CacheRegexp(config), cachePool, routerRules, req, env,
                   config, now,
                   [Out0 EXCEPT !.op = "cache", !.req = req, !.env = env,
                                !.prior = [known |-> Refused(last) /\ last.req = req,
                                           url |-> ""],
                                !.rec = RecordedBefore(req)]))
        /\ UNCHANGED <<config, routerRules, httpStrmCache, now, resolved, alistVars>>

\* the cleaner of the pool removes what is older than the TTL
CleanCachePool ==
    /\ cachePool' = CacheClean(cachePool, CacheTTL(config), now)
    /\ cachePool' # cachePool
    /\ UNCHANGED <<config, routerRules, httpStrmCache, now, last, resolved, recorded, alistVars>>

NextCache == CacheServe \/ Tick \/ CleanCachePool

SpecCache == InitCache /\ [][NextCache]_vars

\* C10: every entry the cache middleware holds has a status in [200, 300) and a
\* body of at most 256 * 1024 bytes; after a response that is not 2xx, or one with
\* a larger body, nothing is stored, so a repeat of the request reaches the
\* upstream again.
C10_OnlySmall2xxStored ==
    /\ \A k \in DOMAIN cachePool :
          /\ cachePool[k].val.StatusCode >= 200
          /\ cachePool[k].val.StatusCode < 300
          /\ cachePool[k].val.Body.len <= 256 * 1024
    /\ Refused(last) => last.mw.set = "none" /\ last.mw.key \notin DOMAIN cachePool
    /\ (last.op = "cache" /\ last.prior.known)
       => ~last.mw.hit /\ last.mw.next /\ last.upstream = <<last.req>>

C10_Witness ==
    /\ last.op = "cache"
    /\ last.prior.known
    /\ last.env.up
    /\ last.resp.StatusCode = 200
    /\ last.resp.Body.len = 256 * 1024 + 1
    /\ last.upstream = <<last.req>>
    /\ \E k \in DOMAIN cachePool : cachePool[k].val.Body.len = 256 * 1024

C13_NonGetBypassesCache ==
    (last.op = "cache" /\ last.req.Method # "GET")
    => /\ ~last.mw.read
       /\ ~last.mw.hit
       /\ last.mw.set = "none"
       /\ last.mw.next
       /\ last.handlers # <<>>
       /\ last.upstream = <<last.req>>

C13_Witness ==
    /\ last.op = "cache"
    /\ last.req.Method = "POST"
    /\ config.SubtitleTTL > 0
    /\ last.req.Path \in SubtitleCacheRegexp
    /\ "/Videos/42/sub/Subtitles/3/Stream.srt" \in DOMAIN cachePool
    /\ cachePool["/Videos/42/sub/Subtitles/3/Stream.srt"].val.Body.raw = "<thumbnail>"
    /\ last.resp.Body.raw = "<poster>"
    /\ last.mw.next

\* C14: every entry a cache middleware stores, and every response it serves
\* from its cache, carries no header outside Content-Type, Content-Length,
\* Cache-Control, ETag and Content-Disposition.
C14_OnlyWhitelistedHeaders ==
    /\ \A k \in DOMAIN cachePool :
          \A h \in HeaderNames \ {"Content-Type", "Content-Length", "Cache-Control",
                                  "ETag", "Content-Disposition"} :
              cachePool[k].val.Header[h] = ""
    /\ (last.op = "cache" /\ last.mw.hit)
       => \A h \in HeaderNames \ {"Content-Type", "Content-Length", "Cache-Control",
                                   "ETag", "Content-Disposition"} :
              last.resp.Header[h] = ""

C14_Witness ==
    /\ last.op = "cache"
    /\ last.mw.hit
    /\ last.env.resp.Header["X-Upstream"] = "emby"
    /\ last.resp.Header["X-Upstream"] = ""
    /\ last.resp.Header["Content-Type"] = "image/webp"
    /\ last.resp.Header["ETag"] = "\"v1\""
    /\ cachePool[last.mw.key].val.Header = last.resp.Header

(***************************************************************************)
(* The same middleware over a pool whose entries may be damaged: an entry  *)
(* whose bytes no longer decode is what the ParseCacheData branch of       *)
(* getCacheBaseFunc is written for.                                        *)
(***************************************************************************)
\* the bytes held under a key stop being the JSON of a CacheData
CorruptEntry ==
    /\ \E k \in DOMAIN cachePool :
          /\ cachePool[k].val # CorruptBytes
          /\ cachePool' = [cachePool EXCEPT ![k].val = CorruptBytes]
    /\ UNCHANGED <<config, routerRules, httpStrmCache, now, last, resolved, recorded, alistVars>>

NextCacheFaults == CacheServe \/ Tick \/ CleanCachePool \/ CorruptEntry

SpecCacheFaults == InitCache /\ [][NextCacheFaults]_vars

\* C15: on a cache miss the client receives the status, the headers and the
\* body the chain produced, whether the Set that follows succeeds or fails; an
\* entry that cannot be parsed is treated as a miss; no cache error changes or
\* fails the client's response.
C15_CacheErrorsInvisible ==
    /\ (last.op = "cache" /\ last.mw.next)
       => /\ last.written = 1
          /\ ~last.panic
          /\ last.upstream = <<last.req>>
          /\ IF last.env.up
             THEN /\ last.resp.StatusCode = last.env.resp.StatusCode
                  /\ last.resp.Body = last.env.resp.Body
                  /\ \A h \in HeaderNames \ {"Connection"} :
                        last.resp.Header[h] = last.env.resp.Header[h]
             ELSE last.resp.StatusCode = 502
    /\ (last.op = "cache" /\ last.mw.parseErr)
       => last.mw.next /\ ~last.mw.hit

C15_Witness ==
    /\ last.op = "cache"
    /\ last.mw.parseErr
    /\ last.mw.set = "failed"
    /\ ~last.env.setOk
    /\ cachePool[last.mw.key].val = CorruptBytes
    /\ last.resp.StatusCode = 200
    /\ last.resp.Body.raw = "<thumbnail>"
    /\ last.resp.Header["Content-Type"] = "image/webp"

(***************************************************************************)
(* getCacheKey on pairs of requests.                                       *)
(***************************************************************************)
MaxQuery == 2

KeyParams ==
    {[k |-> "maxwidth", v |-> "300"], [k |-> "maxwidth", v |-> "90"],
     [k |-> "quality", v |-> "90"],
     [k |-> "tag", v |-> "abc"], [k |-> "tag", v |-> "xyz"],
     [k |-> "api_key", v |-> "abc"]}

KeyQueries == SeqsUpTo(KeyParams, MaxQuery)

KeyPaths == {"/Items/42/Images/Primary", "/Items/7/Images/Primary"}

InitKeys ==
    /\ config = CacheConfig
    /\ routerRules = <<>>
    /\ httpStrmCache = EmptyCache
    /\ cachePool = EmptyCache
    /\ now = 0
    /\ resolved = EmptyCache
    /\ recorded = EmptyCache
    /\ token = NoToken
    /\ mutex = Unlocked
    /\ calls = <<>>
    /\ installed = {}
    /\ alistCache = EmptyCache
    /\ \E q1 \in KeyQueries, q2 \in KeyQueries, p2 \in KeyPaths :
          last = [Out0 EXCEPT
                    !.op = "keys",
                    !.req = Request("GET", "/Items/42/Images/Primary", q1, "chrome", "gzip"),
                    !.other.req = Request("GET", p2, q2, "chrome", "gzip")]

\* getCacheKey on each of the two requests
GetCacheKeys ==
    /\ last.op = "keys"
    /\ last' = [last EXCEPT !.op = "keyed",
                            !.mw.key = getCacheKey(last.req),
                            !.other.key = getCacheKey(last.other.req)]
    /\ UNCHANGED <<config, routerRules, httpStrmCache, cachePool, now, resolved, recorded, alistVars>>

NextKeys == GetCacheKeys

SpecKeys == InitKeys /\ [][NextKeys]_vars

\* how many times the parameter occurs in the query
Occurrences(q, param) == Cardinality({i \in DOMAIN q : q[i] = param})

\* the two queries hold the same parameters the same number of times, the
\* parameters named api_key, tag, playsessionid, starttimeticks and
\* x-playback-session-id left aside
DifferOnlyInOrderOrIgnored(q1, q2) ==
    \A param \in Range(q1) \cup Range(q2) :
        param.k \notin {"api_key", "tag", "playsessionid", "starttimeticks",
                        "x-playback-session-id"}
        => Occurrences(q1, param) = Occurrences(q2, param)

\* C12: getCacheKey returns the same key for two requests with the same path
\* whose query strings differ only in the order of the parameters or in the
\* presence or value of an ignored key (api_key, tag, playsessionid,
\* starttimeticks, x-playback-session-id).
C12_KeyIgnoresOrderAndIgnoredKeys ==
    (/\ last.op = "keyed"
     /\ last.req.Path = last.other.req.Path
     /\ DifferOnlyInOrderOrIgnored(last.req.Query, last.other.req.Query))
    => last.mw.key = last.other.key

C12_Witness ==
    /\ last.op = "keyed"
    /\ last.req.Query = <<[k |-> "maxwidth", v |-> "90"], [k |-> "maxwidth", v |-> "300"]>>
    /\ last.other.req.Query = <<[k |-> "maxwidth", v |-> "300"], [k |-> "maxwidth", v |-> "90"]>>
    /\ last.other.req.Path = last.req.Path
    /\ last.mw.key = "/Items/42/Images/Primarymaxwidth=300&maxwidth=90"
    /\ last.other.key = last.mw.key

(***************************************************************************)
(* getToken of one AlistClient, called from several goroutines.  Each      *)
(* statement that touches the mutex or the token is a step of its own;     *)
(* the login request is in flight between AuthLoginStart and               *)
(* AuthLoginReturn.                                                        *)
(***************************************************************************)
MaxCallers == 2

Callers == 1..MaxCallers

\* what /auth/login answers: an error, or a token
LoginResults ==
    {[err |-> TRUE, token |-> ""], [err |-> FALSE, token |-> "tok1"],
     [err |-> FALSE, token |-> "tok2"]}

Call0 ==
    [pc |-> "idle", loginData |-> "", err |-> FALSE, ret |-> "", path |-> "none",
     seen |-> NoToken, checkedAt |-> 0, failed |-> FALSE]

\* NewAlistClient: a token handed in never expires; without one the
\* constructor's Me() call logs in through getToken before the client exists
InitToken ==
    /\ config = Config0
    /\ routerRules = <<>>
    /\ httpStrmCache = EmptyCache
    /\ cachePool = EmptyCache
    /\ now = 0
    /\ last = Out0
    /\ resolved = EmptyCache
    /\ recorded = EmptyCache
    /\ token \in {[value |-> "tok0", expireAt |-> ZeroTime],
                  [value |-> "tok0", expireAt |-> TokenDuration]}
    /\ mutex = Unlocked
    /\ calls = [g \in Callers |-> Call0]
    /\ installed = {token}
    /\ alistCache = EmptyCache

AlistUnchanged ==
    UNCHANGED <<config, routerRules, httpStrmCache, cachePool, now, last, resolved,
                recorded, alistCache>>

\* a goroutine enters getToken
GetTokenCall(g) ==
    /\ calls[g].pc \in {"idle", "done"}
    /\ calls' = [calls EXCEPT ![g] = [Call0 EXCEPT !.pc = "rlock",
                                                   !.failed = calls[g].failed
                                                              \/ calls[g].err]]
    /\ UNCHANGED <<token, mutex, installed>>
    /\ AlistUnchanged

\* client.token.mutex.RLock()
GetTokenRLock(g) ==
    /\ calls[g].pc = "rlock"
    /\ CanRLock(mutex)
    /\ mutex' = [mutex EXCEPT !.readers = @ \cup {g}]
    /\ calls' = [calls EXCEPT ![g].pc = "check"]
    /\ UNCHANGED <<token, installed>>
    /\ AlistUnchanged

\* a test of the token whose cached return leaves the read lock held
GetTokenCheckKeepsRLock(g) ==
    /\ calls[g].pc = "check"
    /\ IF TokenValid(token, now)
       THEN calls' = [calls EXCEPT ![g].pc = "done", ![g].ret = token.value,
                                   ![g].path = "cached", ![g].seen = token,
                                   ![g].checkedAt = now]
       ELSE calls' = [calls EXCEPT ![g].pc = "login", ![g].seen = token,
                                   ![g].checkedAt = now]
    /\ UNCHANGED <<token, mutex, installed>>
    /\ AlistUnchanged

\* the test of the token; a valid token is returned and the deferred RUnlock
\* runs
GetTokenCheck(g) ==
    /\ calls[g].pc = "check"
    /\ IF TokenValid(token, now)
       THEN /\ calls' = [calls EXCEPT ![g].pc = "done", ![g].ret = token.value,
                                      ![g].path = "cached", ![g].seen = token,
                                      ![g].checkedAt = now]
            /\ mutex' = [mutex EXCEPT !.readers = @ \ {g}]
       ELSE /\ calls' = [calls EXCEPT ![g].pc = "login", ![g].seen = token,
                                      ![g].checkedAt = now]
            /\ mutex' = mutex
    /\ UNCHANGED <<token, installed>>
    /\ AlistUnchanged

\* client.authLogin(): the request to /auth/login leaves
AuthLoginStart(g) ==
    /\ calls[g].pc = "login"
    /\ calls' = [calls EXCEPT ![g].pc = "inflight"]
    /\ UNCHANGED <<token, mutex, installed>>
    /\ AlistUnchanged

AuthLoginReturnClearsToken(g) ==
    /\ calls[g].pc = "inflight"
    /\ \E r \in LoginResults :
          /\ calls' = [calls EXCEPT ![g].pc = IF r.err THEN "done" ELSE "lock",
                                    ![g].err = r.err,
                                    ![g].loginData = r.token]
          /\ token' = IF r.err THEN NoToken ELSE token
    /\ mutex' = [mutex EXCEPT !.readers = @ \ {g}]
    /\ UNCHANGED installed
    /\ AlistUnchanged

\* authLogin returns, then RUnlock; an error ends the call
AuthLoginReturn(g) ==
    /\ calls[g].pc = "inflight"
    /\ \E r \in LoginResults :
          calls' = [calls EXCEPT ![g].pc = IF r.err THEN "done" ELSE "lock",
                                 ![g].err = r.err,
                                 ![g].loginData = r.token]
    /\ mutex' = [mutex EXCEPT !.readers = @ \ {g}]
    /\ UNCHANGED <<token, installed>>
    /\ AlistUnchanged

\* client.token.mutex.Lock() is called: from now on no new reader gets in
GetTokenLock(g) ==
    /\ calls[g].pc = "lock"
    /\ CanAnnounceLock(mutex)
    /\ mutex' = [mutex EXCEPT !.waiting = {g}]
    /\ calls' = [calls EXCEPT ![g].pc = "locking"]
    /\ UNCHANGED <<token, installed>>
    /\ AlistUnchanged

\* client.token.mutex.Lock() returns
GetTokenLocked(g) ==
    /\ calls[g].pc = "locking"
    /\ CanLock(mutex)
    /\ mutex' = [mutex EXCEPT !.writer = g, !.waiting = {}]
    /\ calls' = [calls EXCEPT ![g].pc = "setValue"]
    /\ UNCHANGED <<token, installed>>
    /\ AlistUnchanged

\* client.token.value = loginData.Token
SetTokenValue(g) ==
    /\ calls[g].pc = "setValue"
    /\ token' = [token EXCEPT !.value = calls[g].loginData]
    /\ calls' = [calls EXCEPT ![g].pc = "setExpireAt"]
    /\ UNCHANGED <<mutex, installed>>
    /\ AlistUnchanged

\* client.token.expireAt = time.Now().Add(tokenDuration), the return and the
\* deferred Unlock
SetTokenExpireAt(g) ==
    /\ calls[g].pc = "setExpireAt"
    /\ token' = [token EXCEPT !.expireAt = now + TokenDuration]
    /\ installed' = installed \cup {token'}
    /\ mutex' = [mutex EXCEPT !.writer = 0]
    /\ calls' = [calls EXCEPT ![g].pc = "done", ![g].ret = calls[g].loginData,
                              ![g].path = "login"]
    /\ AlistUnchanged

\* time passes while the goroutines run
TokenTick ==
    /\ now < MaxTime
    /\ now' = now + 1
    /\ UNCHANGED <<config, routerRules, httpStrmCache, cachePool, last, resolved,
                   recorded, alistVars>>

NextToken ==
    \/ \E g \in Callers : GetTokenCall(g)
    \/ \E g \in Callers : GetTokenRLock(g)
    \/ \E g \in Callers : GetTokenCheck(g)
    \/ \E g \in Callers : AuthLoginStart(g)
    \/ \E g \in Callers : AuthLoginReturn(g)
    \/ \E g \in Callers : GetTokenLock(g)
    \/ \E g \in Callers : GetTokenLocked(g)
    \/ \E g \in Callers : SetTokenValue(g)
    \/ \E g \in Callers : SetTokenExpireAt(g)
    \/ TokenTick

SpecToken == InitToken /\ [][NextToken]_vars

\* Every goroutine inside getToken keeps being scheduled, a lock call returns
\* once the mutex admits it, and every /auth/login call returns.  Whether a
\* caller calls getToken at all, and how time passes, is left open.
TokenFairness ==
    \A g \in Callers :
        /\ WF_vars(GetTokenRLock(g))
        /\ WF_vars(GetTokenCheck(g))
        /\ WF_vars(AuthLoginStart(g))
        /\ WF_vars(AuthLoginReturn(g))
        /\ WF_vars(GetTokenLock(g))
        /\ WF_vars(GetTokenLocked(g))
        /\ WF_vars(SetTokenValue(g))
        /\ WF_vars(SetTokenExpireAt(g))

SpecTokenFair == SpecToken /\ TokenFairness

\* the goroutines whose login request is in flight
Refreshing == {g \in Callers : calls[g].pc = "inflight"}

\* C16: for one AlistClient, under any interleaving of concurrent getToken
\* calls, at most one token refresh (a login request made by getToken) is in
\* flight at any time.
C16_AtMostOneRefreshInFlight == Cardinality(Refreshing) <= 1

\* C17: every getToken call that returns without error returns a non-empty
\* token; a token returned from the stored pair was unexpired when it was
\* checked (its expireAt is zero or later than the time of the check); no caller
\* ever reads an empty token or a pair of which only one half was installed.
C17_ReturnsValidToken ==
    \A g \in Callers :
        /\ (calls[g].pc = "done" /\ ~calls[g].err)
           => /\ calls[g].ret # ""
              /\ calls[g].path = "cached"
                 => /\ calls[g].ret = calls[g].seen.value
                    /\ \/ calls[g].seen.expireAt = -1
                       \/ calls[g].checkedAt < calls[g].seen.expireAt
        /\ calls[g].pc \notin {"idle", "rlock", "check"}
           => /\ calls[g].seen.value # ""
              /\ calls[g].seen \in installed

C17_Witness ==
    /\ calls[1].pc = "done"
    /\ calls[1].path = "cached"
    /\ calls[2].pc = "done"
    /\ calls[2].path = "login"
    /\ calls[1].ret = calls[2].ret
    /\ calls[1].seen = token
    /\ token.expireAt > TokenDuration

\* the step in which the login of g's getToken fails and the call returns
LoginFails(g) == calls[g].pc = "inflight" /\ calls'[g].pc = "done"

\* the step in which g, one of whose earlier calls failed at the login, tests
\* the token and finds it invalid
RetestsInvalid(g) ==
    /\ calls[g].failed
    /\ calls[g].pc = "check"
    /\ calls'[g].pc # "check"
    /\ ~(token.value # "" /\ (token.expireAt = -1 \/ now < token.expireAt))

\* C27: if /auth/login fails during getToken, getToken returns the error, the
\* stored token value and expiry are left unchanged, and the next getToken call
\* on a still-invalid token attempts the login again.
C27_FailedLoginLeavesTokenAndRetries ==
    [][\A g \in Callers :
           /\ LoginFails(g) => /\ calls'[g].err
                               /\ calls'[g].ret = ""
                               /\ token' = token
           /\ RetestsInvalid(g) => calls'[g].pc = "login"]_vars

C27_Witness ==
    \E g \in Callers :
        /\ calls[g].failed
        /\ calls[g].pc = "inflight"
        /\ ~(token.value # "" /\ (token.expireAt = -1 \/ now < token.expireAt))
        /\ token \in installed

\* g has called /auth/login for the token it saw and has not returned yet
LoggingIn(g) == calls[g].pc \in {"inflight", "lock", "locking", "setValue", "setExpireAt"}

\* C29: token refresh is double-checked: a getToken caller that found the token
\* missing or expired re-tests it after acquiring the write lock, so of the
\* callers that found the same token invalid exactly one calls /auth/login and
\* the others use the token it installed.
C29_OneLoginPerInvalidToken ==
    \A g, h \in Callers :
        (g # h /\ LoggingIn(g) /\ LoggingIn(h)) => calls[g].seen # calls[h].seen

(***************************************************************************)
(* The FNTV stream rewriter, FNTVHandler.ModifyStream.                     *)
(*                                                                         *)
(* The stream envelope is {code, msg, data: {file_stream: {path, size},    *)
(* direct_link_qualities: [{resolution, url, is_m3u8, expire_at}, ...]}}.  *)
(* A JSON value is written with the Type gjson reports for it.             *)
(***************************************************************************)
Null == [type |-> "Null", num |-> 0, str |-> "", bool |-> FALSE]
Num(n) == [type |-> "Number", num |-> n, str |-> "", bool |-> FALSE]
Str(s) == [type |-> "String", num |-> 0, str |-> s, bool |-> FALSE]
Bool(b) == [type |-> IF b THEN "True" ELSE "False", num |-> 0, str |-> "", bool |-> b]

Quality(resolution, url) ==
    [resolution |-> resolution, url |-> url, is_m3u8 |-> Null, expire_at |-> Null]

StreamJSON(code, path, size, qualities) ==
    [valid |-> TRUE, code |-> code, path |-> path, size |-> size,
     qualities |-> qualities]

SerializeValue(v) ==
    CASE v.type = "Null" -> "null"
      [] v.type = "Number" -> ToString(v.num)
      [] v.type = "String" -> "\"" \o v.str \o "\""
      [] v.type = "True" -> "true"
      [] v.type = "False" -> "false"

SerializeQuality(q) ==
    "{\"resolution\":" \o SerializeValue(q.resolution)
    \o ",\"url\":" \o SerializeValue(q.url)
    \o ",\"is_m3u8\":" \o SerializeValue(q.is_m3u8)
    \o ",\"expire_at\":" \o SerializeValue(q.expire_at) \o "}"

RECURSIVE SerializeQualities(_)
SerializeQualities(qs) ==
    IF qs = <<>> THEN ""
    ELSE SerializeQuality(qs[1]) \o (IF Len(qs) > 1 THEN "," ELSE "")
         \o SerializeQualities(Tail(qs))

SerializeStream(json) ==
    "{\"code\":" \o SerializeValue(json.code)
    \o ",\"data\":{\"file_stream\":{\"path\":" \o SerializeValue(json.path)
    \o ",\"size\":" \o SerializeValue(json.size)
    \o "},\"direct_link_qualities\":[" \o SerializeQualities(json.qualities) \o "]}}"

\* the bytes of an envelope
MkStream(json) ==
    [raw |-> SerializeStream(json), json |-> json, len |-> Len(SerializeStream(json))]

\* jsonChain.Get(path): the value at the path, Null where there is none; a body
\* that is not JSON has no value at any path
JsonChainGet(body, path) ==
    IF ~body.json.valid THEN Null
    ELSE CASE path = "code" -> body.json.code
           [] path = "data.file_stream.path" -> body.json.path
           [] path = "data.direct_link_qualities.0.url" ->
                IF Len(body.json.qualities) >= 1 THEN body.json.qualities[1].url
                ELSE Null

\* jsonChain.Set("data.direct_link_qualities.<index>.<field>", value): the
\* field of the entry at the index, counted from 0; an index one past the end
\* appends an entry
JsonChainSetQuality(json, index, field, value) ==
    [json EXCEPT !.qualities =
        [(IF index + 1 <= Len(@) THEN @ ELSE Append(@, Quality(Null, Null)))
            EXCEPT ![index + 1][field] = value]]

\* jsonChain.Set("data.file_stream.size", value)
JsonChainSetSize(json, value) == [json EXCEPT !.size = value]

\* the texts of the resolution field
HTTPStrmResolution == "HTTPStrm <direct link>"
AlistStrmResolution == "AlistStrm <direct link> - <original>"
AlistTranscodeResolution(name) == "AlistStrm <direct link> - <transcode> " \o name

\* int64(time.Since(resource.expireAt).Seconds()) at time t
SecondsSince(expireAt, t) == t - expireAt

\* a loop that writes the variants from the index of the original on
VariantIndexFromZero(i) == i

\* strconv.Itoa(i+1): the index of the entry of the i-th variant, i from 0
VariantIndex(i) == i + 1

\* the loop over res.transcodeResources: resources[n] is the variant the Go
\* loop visits with i = n - 1
RECURSIVE SetTranscodeResources(_, _, _, _)
SetTranscodeResources(json, resources, n, t) ==
    IF n > Len(resources) THEN json
    ELSE SetTranscodeResources(
             JsonChainSetQuality(
                 JsonChainSetQuality(
                     JsonChainSetQuality(
                         JsonChainSetQuality(json, VariantIndex(n - 1), "resolution",
                             Str(AlistTranscodeResolution(resources[n].resolution.name))),
                         VariantIndex(n - 1), "url", Str(resources[n].url)),
                     VariantIndex(n - 1), "is_m3u8", Bool(resources[n].isM3U8)),
                 VariantIndex(n - 1), "expire_at",
                 Num(SecondsSince(resources[n].expireAt, t))),
             resources, n + 1, t)

\* an early return that sets the two headers all the same
StreamUnchangedButHeaders(rw, cache, o) ==
    [err |-> FALSE,
     rw |-> [rw EXCEPT !.Header = HeaderSet(@, "Content-Type", "application/json")],
     cache |-> cache, o |-> o]

\* the early returns: rw.Body is the data read, the headers are not touched
StreamUnchanged(rw, cache, o) == [err |-> FALSE, rw |-> rw, cache |-> cache, o |-> o]

\* jsonChain.Result() and the two headers
StreamResult(rw, json, cache, o) ==
    [err |-> FALSE,
     rw |-> [rw EXCEPT
               !.Header = HeaderSet(HeaderSet(@, "Content-Type", "application/json"),
                                    "Content-Length", ToString(MkStream(json).len)),
               !.Body = MkStream(json)],
     cache |-> cache, o |-> o]

\* case HTTPStrm, after httpStrmHandler returned r
StreamAfterHTTPStrm(rw, r, o) ==
    StreamResult(rw,
        JsonChainSetQuality(
            JsonChainSetQuality(rw.Body.json, 0, "resolution", Str(HTTPStrmResolution)),
            0, "url", Str(r.url)),
        r.cache, [o EXCEPT !.origin = @ \o r.origin])

\* case AlistStrm, after alistStrmHandler returned r
StreamAfterAlistStrm(rw, r, cache, t, o) ==
    IF r.err THEN StreamUnchanged(rw, cache, [o EXCEPT !.alist = @ \o r.calls])
    ELSE StreamResult(rw,
             SetTranscodeResources(
                 JsonChainSetSize(
                     JsonChainSetQuality(
                         JsonChainSetQuality(rw.Body.json, 0, "resolution",
                                             Str(AlistStrmResolution)),
                         0, "url", Str(r.res.url)),
                     Num(r.res.fileSize)),
                 r.res.transcodeResources, 1, t),
             cache, [o EXCEPT !.alist = @ \o r.calls])

\* the switch on the kind of the file at data.file_stream.path
StreamSwitch(rw, strm, req, env, cfg, cache, t, o) ==
    IF strm.kind \in {"HTTPStrm", "AlistStrm"}
       /\ JsonChainGet(rw.Body, "data.direct_link_qualities.0.url").type # "String"
    THEN StreamUnchanged(rw, cache, o)
    ELSE CASE strm.kind = "HTTPStrm" ->
                StreamAfterHTTPStrm(rw,
                    httpStrmHandler(
                        JsonChainGet(rw.Body, "data.direct_link_qualities.0.url").str,
                        req.UserAgent, env.origin, cfg, cache, t),
                    o)
           [] strm.kind = "AlistStrm" ->
                StreamAfterAlistStrm(rw,
                    alistStrmHandler(
                        JsonChainGet(rw.Body, "data.direct_link_qualities.0.url").str,
                        strm.opt, TRUE, env.alist, cfg),
                    cache, t, o)
           [] OTHER -> StreamResult(rw, rw.Body.json, cache, o)

\* [err, rw, cache, o]: the response after the rewriter, the resolver's cache
ModifyStream(rw, req, env, cfg, cache, t, o) ==
    IF JsonChainGet(rw.Body, "code").type # "Number" THEN StreamUnchanged(rw, cache, o)
    ELSE IF JsonChainGet(rw.Body, "code").num # 0 THEN StreamUnchanged(rw, cache, o)
    ELSE IF JsonChainGet(rw.Body, "data.file_stream.path").type # "String"
    THEN StreamUnchanged(rw, cache, o)
    ELSE StreamSwitch(rw,
             recgonizeStrmFileType(JsonChainGet(rw.Body, "data.file_stream.path").str),
             req, env, cfg, cache, t, o)

(***************************************************************************)
(* Stream responses through ModifyStream.                                  *)
(***************************************************************************)
MaxTasks == 2

StreamRequest == Request("GET", "/v/api/v1/stream", <<>>, "vlc", "gzip")

StreamConfigs == {[Config0 EXCEPT !.MediaServer = "fntv", !.RawURL = raw] : raw \in BOOLEAN}

\* what the upstream lists as the qualities of the file
StreamQualities ==
    {<<>>,
     <<Quality(Str("1080p"), Num(7))>>,
     <<Quality(Str("1080p"), Str("/movies/vid.mkv"))>>,
     <<Quality(Str("1080p"), Str("/movies/vid.mkv")), Quality(Str("720p"), Str("/t/720"))>>}

StreamBodies ==
    {MkText("<html>busy</html>")}
    \cup {MkStream(StreamJSON(code, Str("/media/a.strm"), Num(100),
                              <<Quality(Str("1080p"), Str("/movies/vid.mkv"))>>)) :
            code \in {Null, Str("0"), Num(1)}}
    \cup {MkStream(StreamJSON(Num(0), path, Num(100), qs)) :
            path \in {Null, Str("/media/a.strm"), Str("/media/h.strm"),
                      Str("/media/movie.mkv")},
            qs \in StreamQualities}

StreamResponses ==
    {Upstream(200, ct, body) :
        ct \in {"application/json", "application/json; charset=utf-8"},
        body \in StreamBodies}

\* the tasks of a video preview: two that yield a variant, one without
\* x-oss-expires
StreamTasks ==
    {[Url |-> "https://oss/t/720.m3u8?x-oss-expires=5",
      parsed |-> ParsedURL(<<"/t/720", ".m3u8">>, <<[k |-> "x-oss-expires", v |-> "5"]>>),
      TemplateHeight |-> 720, TemplateName |-> "HD"],
     [Url |-> "https://oss/t/1080.mp4?x-oss-expires=1",
      parsed |-> ParsedURL(<<"/t/1080", ".mp4">>, <<[k |-> "x-oss-expires", v |-> "1"]>>),
      TemplateHeight |-> 1080, TemplateName |-> "FHD"],
     [Url |-> "https://oss/t/480.m3u8",
      parsed |-> ParsedURL(<<"/t/480", ".m3u8">>, <<>>),
      TemplateHeight |-> 480, TemplateName |-> "SD"]}

StreamAlists ==
    {Alist(FALSE, FsGetErr, PreviewErr), Alist(TRUE, FsGetErr, PreviewErr),
     Alist(TRUE, FsGetOk("s"), PreviewErr)}
    \cup {Alist(TRUE, FsGetOk("s"), [err |-> FALSE, tasks |-> tasks]) :
            tasks \in SeqsUpTo(StreamTasks, MaxTasks)}

\* Alist answers vary where the rewriter asks it
StreamEnvs ==
    {e \in {Env(TRUE, resp, ItemsErr, OriginErr, alist, <<>>, FALSE, TRUE) :
              resp \in StreamResponses, alist \in StreamAlists} :
        (\/ ~e.resp.Body.json.valid
         \/ e.resp.Body.json.code # Num(0)
         \/ e.resp.Body.json.path # Str("/media/a.strm")
         \/ e.resp.Header["Content-Type"] # "application/json")
        => ~e.alist.client}

InitStream ==
    /\ config \in StreamConfigs
    /\ routerRules = <<>>
    /\ InitCommon

\* the rewriter has returned r
StreamRewritten(r, t) ==
    /\ last' = [r.o EXCEPT !.resp = r.rw, !.rewriterErr = r.err, !.at = t]
    /\ httpStrmCache' = r.cache

\* one stream response of the upstream through ModifyStream
StreamServe ==
    \E env \in StreamEnvs :
        /\ StreamRewritten(
               ModifyStream(env.resp, StreamRequest, env, config, httpStrmCache, now,
                   [Out0 EXCEPT !.op = "stream", !.req = StreamRequest, !.env = env,
                                !.rewriters = <<"ModifyStream">>]),
               now)
        /\ UNCHANGED <<config, routerRules, cachePool, now, resolved, recorded, alistVars>>

NextStream == StreamServe \/ Tick

SpecStream == InitStream /\ [][NextStream]_vars

\* the envelope the upstream sent and the one the rewriter returned
StreamIn == last.env.resp.Body.json
StreamOut == last.resp.Body.json

\* data.direct_link_qualities.0.url of the upstream's envelope is a string
FirstURLIsString ==
    Len(StreamIn.qualities) >= 1 /\ StreamIn.qualities[1].url.type = "String"

\* the kind of the file the envelope names
StreamKind == recgonizeStrmFileType(StreamIn.path.str).kind

\* the upstream's envelope has code 0 and a string path
StreamAccepted ==
    /\ last.op = "stream"
    /\ StreamIn.valid
    /\ StreamIn.code.type = "Number"
    /\ StreamIn.code.num = 0
    /\ StreamIn.path.type = "String"

\* what the Alist resolver returns for the envelope
StreamResolved ==
    alistStrmHandler(StreamIn.qualities[1].url.str, AlistAddr, TRUE, last.env.alist, config)

\* the response is the upstream's, nothing changed, and the rewriter succeeded
ShippedUntouched ==
    /\ ~last.rewriterErr
    /\ last.resp.StatusCode = last.env.resp.StatusCode
    /\ last.resp.Header = last.env.resp.Header
    /\ last.resp.Body = last.env.resp.Body

C19_AlistQualitiesWritten ==
    (/\ StreamAccepted
     /\ StreamKind = "AlistStrm"
     /\ FirstURLIsString
     /\ ~StreamResolved.err)
    => /\ StreamOut.qualities[1].resolution = Str("AlistStrm <direct link> - <original>")
       /\ StreamOut.qualities[1].url = Str(StreamResolved.res.url)
       /\ StreamOut.size = Num(StreamResolved.res.fileSize)
       /\ Len(StreamOut.qualities) >= Len(StreamResolved.res.transcodeResources) + 1
       /\ \A i \in 1..Len(StreamResolved.res.transcodeResources) :
             /\ StreamOut.qualities[i + 1].url
                  = Str(StreamResolved.res.transcodeResources[i].url)
             /\ StreamOut.qualities[i + 1].is_m3u8
                  = Bool(StreamResolved.res.transcodeResources[i].isM3U8)

C19_Witness ==
    /\ StreamAccepted
    /\ StreamKind = "AlistStrm"
    /\ Len(StreamIn.qualities) = 1
    /\ Len(StreamOut.qualities) = 3
    /\ StreamOut.size = Num(5000)
    /\ StreamOut.qualities[2].url = Str("https://oss/t/1080.mp4?x-oss-expires=1")
    /\ StreamOut.qualities[2].is_m3u8 = Bool(FALSE)
    /\ StreamOut.qualities[3].url = Str("https://oss/t/720.m3u8?x-oss-expires=5")
    /\ StreamOut.qualities[3].is_m3u8 = Bool(TRUE)

\* C20: the expire_at written for each transcode variant is the number of
\* seconds from now until the variant's expiry instant (expiry minus current
\* time), so it is positive for a variant that has not expired yet.
C20_ExpireAtIsSecondsRemaining ==
    (/\ StreamAccepted
     /\ StreamKind = "AlistStrm"
     /\ FirstURLIsString
     /\ ~StreamResolved.err)
    => \A i \in 1..Len(StreamResolved.res.transcodeResources) :
          /\ StreamOut.qualities[i + 1].expire_at
               = Num(StreamResolved.res.transcodeResources[i].expireAt - last.at)
          /\ StreamResolved.res.transcodeResources[i].expireAt > last.at
             => StreamOut.qualities[i + 1].expire_at.num > 0

(***************************************************************************)
(* Properties of the PlaybackInfo rewriter on sources that are not STRM.   *)
(***************************************************************************)
\* the Items answer for the i-th media source names a file the recognizer
\* classifies Unknown
AnswerIsUnknown(answer) ==
    /\ ~answer.err
    /\ answer.Items # <<>>
    /\ recgonizeStrmFileType(answer.Items[1].Path).kind = "UnknownStrm"

EverySourceUnknown(env) ==
    /\ env.resp.Body.json.valid
    /\ \A i \in DOMAIN env.resp.Body.json.MediaSources :
           AnswerIsUnknown(env.sourceItems[i])

\* C21: if every media source of a PlaybackInfo response is classified Unknown
\* by the STRM recognizer, the body ModifyPlaybackInfo returns is byte-identical
\* to the upstream body.
C21_AllUnknownBodyIdentical ==
    (/\ last.op = "router"
     /\ last.rewriters # <<>>
     /\ last.rewriters[1] \in PlaybackInfoRewriters
     /\ EverySourceUnknown(last.env))
    => /\ ~last.rewriterErr
       /\ ~last.panic
       /\ last.resp.Body = last.env.resp.Body

C21_Witness ==
    /\ last.op = "router"
    /\ last.rewriters # <<>>
    /\ last.rewriters[1] \in PlaybackInfoRewriters
    /\ EverySourceUnknown(last.env)
    /\ Len(last.env.resp.Body.json.MediaSources) = 2
    /\ Len(last.items) = 2
    /\ last.env.resp.Body # MkPlaybackInfo(last.env.resp.Body.json)
    /\ last.resp.Body = last.env.resp.Body

(***************************************************************************)
(* The rewriters, called directly on a response of the upstream.           *)
(***************************************************************************)
RewriterNames ==
    {"EmbyModifyPlaybackInfo", "JellyfinModifyPlaybackInfo", "ModifyBaseHtmlPlayer",
     "ModifySubtitles", "ModifyIndex"}

RewriterConfigs ==
    {[Config0 EXCEPT !.WebEnable = TRUE, !.WebIndex = index, !.WebHead = "<style/>",
                     !.SubtitleEnable = TRUE, !.SRT2ASS = ass] :
        index \in BOOLEAN, ass \in BOOLEAN}

RewriterBodies ==
    {[ct |-> "application/json", body |-> PlaybackInfoBodyLn(<<"mediasource_42", "7">>)],
     [ct |-> "application/javascript", body |-> MkText("player.js:anonymous")],
     [ct |-> "text/plain", body |-> MkText("srt:hello")],
     [ct |-> "text/plain", body |-> MkText("WEBVTT hello")],
     [ct |-> "text/html; charset=utf-8", body |-> MkText("<head></head>")]}

RewriterResponses ==
    {Upstream(status, b.ct, b.body) : status \in {200, 404}, b \in RewriterBodies}

RewriterEnvs ==
    {Env(TRUE, resp, ItemsErr, OriginErr, Alist(FALSE, FsGetErr, PreviewErr), sourceItems,
         fileErr, TRUE) :
        resp \in RewriterResponses, fileErr \in BOOLEAN,
        sourceItems \in {<<ItemsErr, ItemsOf(<<>>)>>,
                         <<ItemsErr, ItemsOf(<<HTTPItem>>)>>,
                         <<ItemsOf(<<HTTPItem>>), ItemsOf(<<UnknownItem>>)>>}}

InitRewriters ==
    /\ config \in RewriterConfigs
    /\ routerRules = <<>>
    /\ InitCommon

\* the rewriter has returned m = [err, panic, rw, o]
Rewritten(m) ==
    last' = [m.o EXCEPT !.resp = m.rw, !.rewriterErr = m.err, !.panic = m.panic]

\* one rewriter of the Emby and Jellyfin handlers on one response
RewriterCall ==
    \E name \in RewriterNames, env \in RewriterEnvs :
        /\ Rewritten(CallRewriter(name, env.resp, env, config,
                         [Out0 EXCEPT !.op = "rewriter", !.env = env,
                                      !.rewriters = <<name>>]))
        /\ UNCHANGED <<config, routerRules, httpStrmCache, cachePool, now, resolved,
                       recorded, alistVars>>

\* the FNTV rewriter on one stream response
StreamRewriterCall ==
    \E env \in StreamEnvs :
        /\ StreamRewritten(
               ModifyStream(env.resp, StreamRequest, env, config, httpStrmCache, now,
                   [Out0 EXCEPT !.op = "rewriter", !.req = StreamRequest, !.env = env,
                                !.rewriters = <<"ModifyStream">>]),
               now)
        /\ UNCHANGED <<config, routerRules, cachePool, now, resolved, recorded, alistVars>>

NextRewriters == RewriterCall \/ StreamRewriterCall

SpecRewriters == InitRewriters /\ [][NextRewriters]_vars

BodyHeaders == {"Content-Length", "Content-Type"}

\* C22: no rewriter (ModifyPlaybackInfo, ModifyStream, ModifyBaseHtmlPlayer,
\* ModifySubtitles, ModifyIndex) changes the status code of the response it
\* received from the upstream or any header other than Content-Length and
\* Content-Type; the only other thing it changes is the body.
C22_OnlyBodyAndItsHeadersChange ==
    last.op = "rewriter"
    => /\ last.resp.StatusCode = last.env.resp.StatusCode
       /\ \A h \in HeaderNames \ BodyHeaders :
              last.resp.Header[h] = last.env.resp.Header[h]

C22_Witness ==
    /\ last.op = "rewriter"
    /\ last.rewriters = <<"ModifyIndex">>
    /\ ~last.rewriterErr
    /\ last.env.resp.StatusCode = 404
    /\ last.resp.StatusCode = 404
    /\ last.resp.Body # last.env.resp.Body
    /\ last.resp.Header["Content-Length"] # last.env.resp.Header["Content-Length"]
    /\ last.resp.Header["ETag"] = "\"v1\""
    /\ last.resp.Header["Connection"] = "keep-alive"

(***************************************************************************)
(* The Alist resolver, called directly.                                    *)
(***************************************************************************)
ResolverContent == "/movies/vid.mkv"

ResolverConfigs == {[Config0 EXCEPT !.RawURL = raw] : raw \in BOOLEAN}

Task(url, parsed, height, name) ==
    [Url |-> url, parsed |-> parsed, TemplateHeight |-> height, TemplateName |-> name]

Expires(v) == <<[k |-> "x-oss-expires", v |-> v]>>

\* tasks that yield a variant and tasks that fail each of the four tests
ResolverTasks ==
    {Task("https://oss/t/720.m3u8?x-oss-expires=5",
          ParsedURL(<<"/t/720", ".m3u8">>, Expires("5")), 720, "HD"),
     Task("https://oss/t/1080.mp4?x-oss-expires=1",
          ParsedURL(<<"/t/1080", ".mp4">>, Expires("1")), 1080, "FHD"),
     Task("https://oss/t/a.mp4?f=.m3u8&x-oss-expires=2",
          ParsedURL(<<"/t/a", ".mp4">>, <<[k |-> "f", v |-> ".m3u8"]>> \o Expires("2")),
          360, "LD"),
     Task("", ParsedURL(<<>>, <<>>), 240, "empty"),
     Task("https://oss/%zz?x-oss-expires=5", NotURL, 240, "bad escape"),
     Task("https://oss/t/480.m3u8", ParsedURL(<<"/t/480", ".m3u8">>, <<>>), 480, "SD"),
     Task("https://oss/t/b.m3u8?x-oss-expires=5x",
          ParsedURL(<<"/t/b", ".m3u8">>, Expires("5x")), 240, "bad expires")}

ResolverAlists ==
    {Alist(FALSE, FsGetErr, PreviewErr), Alist(TRUE, FsGetErr, PreviewErr),
     Alist(TRUE, FsGetOk("s"), PreviewErr), Alist(TRUE, FsGetOk(""), PreviewErr)}
    \cup {Alist(TRUE, FsGetOk("s"), [err |-> FALSE, tasks |-> tasks]) :
            tasks \in SeqsUpTo(ResolverTasks, MaxTasks)}

InitResolver ==
    /\ config \in ResolverConfigs
    /\ routerRules = <<>>
    /\ InitCommon

\* alistStrmHandler has returned r = [err, res, calls]
Resolved(need, a, r) ==
    last' = [Out0 EXCEPT !.op = "resolver", !.env.alist = a, !.alist = r.calls,
                         !.resolver = [content |-> ResolverContent, need |-> need,
                                       err |-> r.err, res |-> r.res]]

\* one call of the resolver, with or without the transcode variants
AlistResolve ==
    \E need \in BOOLEAN, a \in ResolverAlists :
        /\ Resolved(need, a, alistStrmHandler(ResolverContent, AlistAddr, need, a, config))
        /\ UNCHANGED <<config, routerRules, httpStrmCache, cachePool, now, resolved,
                       recorded, alistVars>>

NextResolver == AlistResolve

SpecResolver == InitResolver /\ [][NextResolver]_vars

\* the URL the resolver makes of an FsGet answer
URLFromFsGet(fsget) ==
    IF config.RawURL THEN fsget.RawURL
    ELSE IF fsget.Sign = "" THEN "http://alist:5244/d/base/movies/vid.mkv"
    ELSE "http://alist:5244?sign=" \o fsget.Sign \o "/d/base/movies/vid.mkv"

\* C23: in the Alist resolver, when transcode variants are requested and the
\* video-preview call fails, the resolver still returns success with the URL and
\* the file size obtained from FsGet and an empty variant list; a failure of the
\* client lookup or of FsGet returns an error and no result.
C23_PreviewFailureKeepsBasicResult ==
    last.op = "resolver"
    => /\ (/\ last.resolver.need
           /\ last.env.alist.client
           /\ ~last.env.alist.fsget.err
           /\ last.env.alist.preview.err)
          => /\ ~last.resolver.err
             /\ last.resolver.res.url = URLFromFsGet(last.env.alist.fsget)
             /\ last.resolver.res.fileSize = last.env.alist.fsget.Size
             /\ last.resolver.res.transcodeResources = <<>>
       /\ (~last.env.alist.client \/ last.env.alist.fsget.err)
          => /\ last.resolver.err
             /\ last.resolver.res = NoResult

C23_Witness ==
    /\ last.op = "resolver"
    /\ last.resolver.need
    /\ last.env.alist.client
    /\ ~last.env.alist.fsget.err
    /\ last.env.alist.preview.err
    /\ last.alist = <<"FsGet", "video_preview">>
    /\ ~last.resolver.err
    /\ last.resolver.res.url = "http://alist:5244?sign=s/d/base/movies/vid.mkv"
    /\ last.resolver.res.fileSize = 5000

\* a preview task whose URL is non-empty, parses as a URL and carries an
\* x-oss-expires query parameter that parses as an integer
YieldsVariant(task) ==
    /\ task.Url # ""
    /\ task.parsed.ok
    /\ \E i \in DOMAIN task.parsed.Query :
           /\ task.parsed.Query[i].k = "x-oss-expires"
           /\ \A j \in 1..(i - 1) : task.parsed.Query[j].k # "x-oss-expires"
           /\ task.parsed.Query[i].v \in {"1", "2", "5"}

EpochOf(task) ==
    CASE QueryGet(task.parsed.Query, "x-oss-expires") = "1" -> 1
      [] QueryGet(task.parsed.Query, "x-oss-expires") = "2" -> 2
      [] QueryGet(task.parsed.Query, "x-oss-expires") = "5" -> 5
      [] OTHER -> -1

EndsInM3U8(task) ==
    /\ task.parsed.Path # <<>>
    /\ task.parsed.Path[Len(task.parsed.Path)] = ".m3u8"

\* the resolver went through the task list of a preview
WentThroughTasks ==
    /\ last.op = "resolver"
    /\ last.resolver.need
    /\ last.env.alist.client
    /\ ~last.env.alist.fsget.err
    /\ ~last.env.alist.preview.err

\* C30: the variant list the Alist resolver returns contains, in task order,
\* exactly one variant for each preview task whose URL is non-empty, parses as a
\* URL and carries an x-oss-expires query parameter that parses as an integer;
\* that variant's expiry is that epoch second and its isM3U8 flag is true exactly
\* when the URL path ends in ".m3u8"; every other task contributes nothing and
\* does not abort the resolution.
C30_OneVariantPerUsableTask ==
    WentThroughTasks
    => LET usable == SelectSeq(last.env.alist.preview.tasks, YieldsVariant)
           variants == last.resolver.res.transcodeResources
       IN  /\ ~last.resolver.err
           /\ Len(variants) = Len(usable)
           /\ \A i \in DOMAIN usable :
                  /\ variants[i].url = usable[i].Url
                  /\ variants[i].expireAt = EpochOf(usable[i])
                  /\ variants[i].isM3U8 = EndsInM3U8(usable[i])

C30_Witness ==
    /\ WentThroughTasks
    /\ Len(last.env.alist.preview.tasks) = 2
    /\ last.env.alist.preview.tasks[1].Url = "https://oss/t/b.m3u8?x-oss-expires=5x"
    /\ last.env.alist.preview.tasks[2].Url = "https://oss/t/a.mp4?f=.m3u8&x-oss-expires=2"
    /\ ~last.resolver.err
    /\ Len(last.resolver.res.transcodeResources) = 1
    /\ last.resolver.res.transcodeResources[1].expireAt = 2
    /\ ~last.resolver.res.transcodeResources[1].isM3U8

(***************************************************************************)
(* The requests of the Alist client: doRequest, by one goroutine.          *)
(*   api.got    the cache was asked for the key                            *)
(*   api.hit    the answer came from the cache                             *)
(*   api.login  getToken called authLogin                                  *)
(*   api.sent   the request went to the Alist server                       *)
(*   api.set    "ok": Set stored the response, "rejected": Set failed      *)
(*   api.before, api.after   the cache when the call began and ended       *)
(***************************************************************************)
\* http.StatusOK
StatusOK == 200

\* NewAlistClient creates the cache under these two settings
AlistCacheOn(cfg) == cfg.CacheEnable /\ cfg.AlistAPITTL > 0

\* the bytes of an AlistResponse, and bytes json.Unmarshal rejects
Envelope(code, data) == [valid |-> TRUE, Code |-> code, Data |-> data]

Malformed == [valid |-> FALSE, Code |-> 0, Data |-> ""]

\* getToken run by one goroutine alone, from the test to the return; login is
\* what authLogin answers if it is called
GetTokenAlone(tok, t, login) ==
    IF TokenValid(tok, t) THEN [err |-> FALSE, token |-> tok, login |-> FALSE]
    ELSE IF login.err THEN [err |-> TRUE, token |-> tok, login |-> TRUE]
    ELSE [err |-> FALSE, login |-> TRUE,
          token |-> [value |-> login.token, expireAt |-> t + TokenDuration]]

NoAuth(tok) == [err |-> FALSE, token |-> tok, login |-> FALSE]

UsesCacheWithAnyKey(r, cacheOn) == cacheOn

\* cacheKey != "" && client.cache != nil
UsesCache(r, cacheOn) == r.CacheKey # "" /\ cacheOn

\* cache.Get found the key and json.Unmarshal accepted the bytes
CacheAnswers(r, cacheOn, cache) ==
    /\ UsesCache(r, cacheOn)
    /\ CacheHas(cache, r.CacheKey)
    /\ CacheGet(cache, r.CacheKey).valid

\* the three tests after client.client.Do: transport, json.Unmarshal, resp.Code
RequestFailed(wire) ==
    \/ wire.err
    \/ ~wire.Body.valid
    \/ wire.Body.Code # StatusOK

\* cache.Set returned an error
AfterSetError(a) == [a EXCEPT !.err = TRUE, !.data = "", !.set = "rejected"]

\* from client.client.Do on; a is the record of the call so far
AfterGetToken(r, wire, setOk, cache, tok, t, a) ==
    IF RequestFailed(wire)
    THEN [api |-> [a EXCEPT !.err = TRUE], cache |-> cache, token |-> tok]
    ELSE IF ~UsesCache(r, a.cacheOn)
    THEN [api |-> [a EXCEPT !.data = wire.Body.Data], cache |-> cache, token |-> tok]
    ELSE IF setOk
    THEN [api |-> [a EXCEPT !.data = wire.Body.Data, !.set = "ok"],
          cache |-> CacheSet(cache, r.CacheKey, wire.Body, t), token |-> tok]
    ELSE [api |-> AfterSetError(a), cache |-> cache, token |-> tok]

\* from the NeedAuth test on; g is what getToken returned
AfterCacheMiss(r, wire, setOk, cache, t, a, g) ==
    IF g.err
    THEN [api |-> [a EXCEPT !.err = TRUE, !.login = g.login], cache |-> cache,
          token |-> g.token]
    ELSE AfterGetToken(r, wire, setOk, cache, g.token, t,
                       [a EXCEPT !.login = g.login, !.sent = TRUE])

\* [api, cache, token]
doRequest(r, wire, setOk, login, cfg, cache, tok, t) ==
    LET a == [Out0.api EXCEPT !.r = r, !.wire = wire, !.setOk = setOk,
                              !.cacheOn = AlistCacheOn(cfg),
                              !.got = UsesCache(r, AlistCacheOn(cfg)),
                              !.before = cache]
    IN  IF CacheAnswers(r, AlistCacheOn(cfg), cache)
        THEN [api |-> [a EXCEPT !.hit = TRUE, !.data = CacheGet(cache, r.CacheKey).Data],
              cache |-> cache, token |-> tok]
        ELSE AfterCacheMiss(r, wire, setOk, cache, t, a,
                            IF r.NeedAuth THEN GetTokenAlone(tok, t, login)
                            ELSE NoAuth(tok))

\* --- one client and its requests -------------------------------------------
ApiConfigs ==
    {[Config0 EXCEPT !.CacheEnable = enable, !.AlistAPITTL = ttl] :
        enable \in BOOLEAN, ttl \in {0, 2}}

\* GetCacheKey() and NeedAuth() of the request
ApiRequests ==
    {[CacheKey |-> key, NeedAuth |-> auth] :
        key \in {"", "/api/fs/get:/movies/vid.mkv"}, auth \in BOOLEAN}

\* what client.client.Do and io.ReadAll give: an error, or a status and bytes
WireAnswers ==
    {[err |-> TRUE, StatusCode |-> 0, Body |-> Malformed]}
    \cup {[err |-> FALSE, StatusCode |-> status, Body |-> body] :
            status \in {200, 500},
            body \in {Malformed, Envelope(200, "d1"), Envelope(200, "d2"),
                      Envelope(500, "")}}

ApiLogins == {[err |-> TRUE, token |-> ""], [err |-> FALSE, token |-> "tok1"]}

InitApi ==
    /\ config \in ApiConfigs
    /\ routerRules = <<>>
    /\ httpStrmCache = EmptyCache
    /\ cachePool = EmptyCache
    /\ now = 0
    /\ last = Out0
    /\ resolved = EmptyCache
    /\ recorded = EmptyCache
    /\ token \in {[value |-> "tok0", expireAt |-> ZeroTime],
                  [value |-> "tok0", expireAt |-> TokenDuration]}
    /\ mutex = Unlocked
    /\ calls = <<>>
    /\ installed = {}
    /\ alistCache = EmptyCache

\* doRequest has returned d = [api, cache, token]
DoRequestReturned(d) ==
    /\ last' = [Out0 EXCEPT !.op = "doRequest", !.api = [d.api EXCEPT !.after = d.cache],
                             !.at = now]
    /\ alistCache' = d.cache
    /\ token' = d.token

\* one request of the client
DoRequest ==
    \E r \in ApiRequests, wire \in WireAnswers, setOk \in BOOLEAN, login \in ApiLogins :
        /\ DoRequestReturned(doRequest(r, wire, setOk, login, config, alistCache,
                                       token, now))
        /\ UNCHANGED <<config, routerRules, httpStrmCache, cachePool, now, resolved,
                       recorded, mutex, calls, installed>>

\* the cleaner of the client's cache removes what is older than the TTL
CleanAlistCache ==
    /\ alistCache' = CacheClean(alistCache, config.AlistAPITTL, now)
    /\ alistCache' # alistCache
    /\ UNCHANGED <<config, routerRules, httpStrmCache, cachePool, now, last, resolved,
                   recorded, token, mutex, calls, installed>>

NextApi == DoRequest \/ Tick \/ CleanAlistCache

SpecApi == InitApi /\ [][NextApi]_vars

\* the last call asked the server and got an answer json.Unmarshal accepts
GotEnvelope ==
    /\ last.op = "doRequest"
    /\ last.api.sent
    /\ ~last.api.wire.err
    /\ last.api.wire.Body.valid

\* C24: doRequest returns an error and no data whenever the HTTP status of the
\* Alist response is not 200 or the code field of the JSON envelope signals
\* failure.
C24_BadStatusOrCodeIsError ==
    (GotEnvelope /\ (\/ last.api.wire.StatusCode # 200
                     \/ last.api.wire.Body.Code # 200))
    => last.api.err /\ last.api.data = ""

\* C25: when Set on the Alist response cache rejects an entry, doRequest still
\* returns the data it fetched and the operation does not fail.
C25_SetRejectionIsSkipped ==
    (GotEnvelope /\ last.api.set = "rejected")
    => ~last.api.err /\ last.api.data = last.api.wire.Body.Data

\* C26: doRequest writes to the Alist response cache only when the request's
\* cache key is non-empty, a cache is configured and the call succeeded; a
\* transport error, malformed JSON or an envelope whose code signals failure
\* leaves the cache unchanged; a request with an empty cache key never reads or
\* writes the cache.
C26_CacheWrittenOnlyOnSuccess ==
    last.op = "doRequest"
    => /\ (last.api.set = "ok" \/ last.api.after # last.api.before)
          => /\ last.api.r.CacheKey # ""
             /\ AlistCacheOn(config)
             /\ ~last.api.err
       /\ (/\ last.api.sent
           /\ \/ last.api.wire.err
              \/ ~last.api.wire.Body.valid
              \/ last.api.wire.Body.Code # 200)
          => /\ last.api.after = last.api.before
             /\ last.api.set = "none"
       /\ last.api.r.CacheKey = ""
          => /\ ~last.api.got
             /\ last.api.set = "none"
             /\ last.api.after = last.api.before

C26_Witness ==
    /\ last.op = "doRequest"
    /\ last.api.set = "ok"
    /\ last.api.login
    /\ last.api.after # last.api.before
    /\ last.api.data = "d2"
    /\ CacheGet(last.api.after, "/api/fs/get:/movies/vid.mkv").Data = "d2"

(***************************************************************************)
(* A request whose client goes away.  net/http cancels the context of the  *)
(* request when the connection closes; an outgoing call ends early only if *)
(* its own request was made with that context.                             *)
(*   pc        idle, handling (the handler runs), inflight (it waits for   *)
(*             an outgoing call), done                                     *)
(*   call      the outgoing call in flight or last made                    *)
(*   ctx       that call's request carries the context of the request      *)
(*   ctxDone   the client has disconnected                                 *)
(*   outcome   how the last outgoing call ended                            *)
(*   late      the call ran to completion although the client had gone     *)
(***************************************************************************)
Handling0 ==
    [pc |-> "idle", call |-> "none", ctx |-> FALSE, ctxDone |-> FALSE,
     outcome |-> "none", late |-> FALSE]

\* the proxy request and the calls of the resolvers
OutgoingCalls == {"upstream", "getFinalURL", "FsGet", "video_preview", "login"}

\* httputil.ReverseProxy sends req.Clone(req.Context()).  The resolvers are
\* called with strings: getFinalURL(client, content, ua),
\* alistStrmHandler(content, alistAddr, need), newHTTPReq(endpoint, r); no
\* context reaches the requests they make.
CarriesRequestContext(call) == call = "upstream"

InitCancel ==
    /\ config = Config0
    /\ routerRules = <<>>
    /\ httpStrmCache = EmptyCache
    /\ cachePool = EmptyCache
    /\ now = 0
    /\ last = Out0
    /\ resolved = EmptyCache
    /\ recorded = EmptyCache
    /\ token = NoToken
    /\ mutex = Unlocked
    /\ calls = [g \in Callers |-> Handling0]
    /\ installed = {}
    /\ alistCache = EmptyCache

CancelUnchanged ==
    UNCHANGED <<config, routerRules, httpStrmCache, cachePool, now, last, resolved,
                recorded, token, mutex, installed, alistCache>>

\* a request arrives and its handler starts
RequestArrives(g) ==
    /\ calls[g].pc \in {"idle", "done"}
    /\ calls' = [calls EXCEPT ![g] = [Handling0 EXCEPT !.pc = "handling"]]
    /\ CancelUnchanged

\* the handler makes an outgoing call and waits for it
StartCall(g) ==
    /\ calls[g].pc = "handling"
    /\ \E call \in OutgoingCalls :
          calls' = [calls EXCEPT ![g].pc = "inflight", ![g].call = call,
                                 ![g].ctx = CarriesRequestContext(call),
                                 ![g].outcome = "none"]
    /\ CancelUnchanged

\* the client closes the connection: the context of the request is cancelled
ClientDisconnects(g) ==
    /\ calls[g].pc \in {"handling", "inflight"}
    /\ ~calls[g].ctxDone
    /\ calls' = [calls EXCEPT ![g].ctxDone = TRUE]
    /\ CancelUnchanged

\* the transport gives up a call whose context is cancelled
CallCancelled(g) ==
    /\ calls[g].pc = "inflight"
    /\ calls[g].ctx
    /\ calls[g].ctxDone
    /\ calls' = [calls EXCEPT ![g].pc = "handling", ![g].outcome = "cancelled"]
    /\ CancelUnchanged

\* the call runs until the other side answers or its own timeout ends it
CallCompletes(g) ==
    /\ calls[g].pc = "inflight"
    /\ ~(calls[g].ctx /\ calls[g].ctxDone)
    /\ calls' = [calls EXCEPT ![g].pc = "handling", ![g].outcome = "completed",
                              ![g].late = @ \/ calls[g].ctxDone]
    /\ CancelUnchanged

HandlerReturns(g) ==
    /\ calls[g].pc = "handling"
    /\ calls' = [calls EXCEPT ![g].pc = "done"]
    /\ CancelUnchanged

NextCancel ==
    \/ \E g \in Callers : RequestArrives(g)
    \/ \E g \in Callers : StartCall(g)
    \/ \E g \in Callers : ClientDisconnects(g)
    \/ \E g \in Callers : CallCancelled(g)
    \/ \E g \in Callers : CallCompletes(g)
    \/ \E g \in Callers : HandlerReturns(g)

SpecCancel == InitCancel /\ [][NextCancel]_vars

\* C28: when the client disconnects while its request is being handled, the
\* upstream proxy request and every resolver call started for that request
\* (HTTP final-URL lookup, Alist FsGet, video preview, login) are cancelled
\* rather than left to run to completion.
C28_DisconnectCancelsCalls == \A g \in Callers : ~calls[g].late

\* C32: when the upstream subtitle is not in SRT format, ModifySubtitles returns
\* success and the client receives the original upstream subtitle bytes
\* unchanged, with a Content-Length matching them.
C32_NonSRTSubtitleUnchanged ==
    (/\ last.op = "rewriter"
     /\ last.rewriters = <<"ModifySubtitles">>
     /\ ~IsSRT(last.env.resp.Body))
    => /\ ~last.rewriterErr
       /\ last.resp.Body = last.env.resp.Body
       /\ last.resp.Header["Content-Length"] = ToString(last.env.resp.Body.len)

\* the media sources of the upstream's PlaybackInfo whose Items query succeeds
\* with an empty item list
EmptyAnswered ==
    {i \in DOMAIN last.env.resp.Body.json.MediaSources :
        ~last.env.sourceItems[i].err /\ last.env.sourceItems[i].Items = <<>>}

\* C34: when the upstream Items query succeeds but returns an empty item list,
\* the request is not aborted: ModifyPlaybackInfo leaves that media source
\* unmodified and still returns the response (and VideosHandler passes the
\* request through to the upstream).
C34_EmptyItemsNotAborted ==
    (/\ last.op = "rewriter"
     /\ last.rewriters[1] \in PlaybackInfoRewriters
     /\ last.env.resp.Body.json.valid
     /\ EmptyAnswered # {})
    => /\ ~last.panic
       /\ ~last.rewriterErr
       /\ last.resp.Body.json.valid
       /\ \A i \in EmptyAnswered :
              last.resp.Body.json.MediaSources[i] = last.env.resp.Body.json.MediaSources[i]

\* the media sources of the upstream's PlaybackInfo whose Items query fails
FailedQueries ==
    {i \in DOMAIN last.env.resp.Body.json.MediaSources : last.env.sourceItems[i].err}

\* what the rewriter makes of media source i once its item is classified
ClassifiedSource(i) ==
    LET json == last.env.resp.Body.json
        kind == recgonizeStrmFileType(last.env.sourceItems[i].Items[1].Path).kind
    IN  IF kind \in {"HTTPStrm", "AlistStrm"}
        THEN ProcessStrmPlaybackInfo(json, i, kind).MediaSources[i]
        ELSE json.MediaSources[i]

\* C35: in ModifyPlaybackInfo a failed Items query for one media source leaves
\* that media source's JSON unmodified and does not stop processing: every other
\* media source of the response is still classified and rewritten, and the
\* rewriter returns success.
C35_FailedQuerySkipsOneSource ==
    (/\ last.op = "rewriter"
     /\ last.rewriters[1] \in PlaybackInfoRewriters
     /\ last.env.resp.Body.json.valid
     /\ FailedQueries # {})
    => /\ ~last.panic
       /\ ~last.rewriterErr
       /\ last.resp.Body.json.valid
       /\ \A i \in DOMAIN last.env.resp.Body.json.MediaSources :
              last.resp.Body.json.MediaSources[i] =
                  IF i \in FailedQueries \/ last.env.sourceItems[i].Items = <<>>
                  THEN last.env.resp.Body.json.MediaSources[i]
                  ELSE ClassifiedSource(i)

(***************************************************************************)
(* Range requests through the cache middleware.  The reverse proxy passes  *)
(* the Range header on; the upstream answers a range it honours with 206   *)
(* and the bytes asked for, and may ignore the header and answer 200 with  *)
(* the whole resource.                                                     *)
(***************************************************************************)
Ranges == {"bytes=0-99", "bytes=100-199"}

RangeRequests ==
    {WithRange(Request("GET", "/Items/42/Images/Primary",
                       <<[k |-> "maxwidth", v |-> "300"]>>, "chrome", "gzip"), range) :
        range \in Ranges \cup {""}}
    \cup {WithRange(Request("GET", "/Videos/42/sub/Subtitles/3/Stream.srt", <<>>,
                            "chrome", "gzip"), range) : range \in {"", "bytes=0-99"}}

WholeResource == Upstream(200, "image/webp", ImageBody("<thumbnail>", 10240))

PartialContent(range) ==
    Upstream(206, "image/webp", ImageBody("<thumbnail>[" \o range \o "]", 100))

\* what the upstream may answer to a request with the Range header
RangeAnswers(range) ==
    IF range = "" THEN {WholeResource} ELSE {WholeResource, PartialContent(range)}

InitRange ==
    /\ config \in CacheConfigs
    /\ routerRules \in RuleTables(config, {{"/videos/42/stream"}})
    /\ InitCommon

\* one request, with or without a Range header, through the middleware and, by
\* ctx.Next(), the router
RangeServe ==
    \E req \in RangeRequests : \E resp \in RangeAnswers(req.Range) :
        /\ ServedThroughCache(
               CacheMiddleware(CacheRegexp(config), cachePool, routerRules, req,
                   Env(TRUE, resp, ItemsErr, OriginErr,
                       Alist(FALSE, FsGetErr, PreviewErr), <<>>, FALSE, TRUE),
                   config, now,
                   [Out0 EXCEPT !.op = "cache", !.req = req,
                                !.env.resp = resp,
                                !.rec = RecordedBefore(req)]))
        /\ UNCHANGED <<config, routerRules, httpStrmCache, now, resolved, alistVars>>

NextRange == RangeServe \/ Tick \/ CleanCachePool

SpecRange == InitRange /\ [][NextRange]_vars

\* C36: a response recorded by the cache middleware for a request carrying a
\* Range header (a 206 partial response) is never served from the cache to a
\* request for the same path and query that asks for a different range or for
\* the whole resource.
C36_PartialNeverServedToOtherRange ==
    (/\ last.op = "cache"
     /\ last.mw.hit
     /\ last.rec.known
     /\ last.rec.StatusCode = 206
     /\ last.rec.Range # "")
    => last.req.Range = last.rec.Range

\* g is inside getToken
InGetToken(g) == calls[g].pc \notin {"idle", "done"}

\* g holds neither side of the token lock and waits for neither
HoldsNoLock(g) ==
    /\ g \notin mutex.readers
    /\ mutex.writer # g
    /\ g \notin mutex.waiting

\* C37: no interleaving of concurrent getToken calls on one AlistClient
\* deadlocks: provided every /auth/login call returns, every getToken call
\* eventually returns a token or an error, and on return it holds neither the
\* read nor the write side of the token lock.
C37_GetTokenReturnsUnlocked ==
    /\ \A g \in Callers : InGetToken(g) ~> (calls[g].pc = "done")
    /\ [](\A g \in Callers :
              calls[g].pc = "done"
              => /\ HoldsNoLock(g)
                 /\ calls[g].err \/ calls[g].ret # "")

\* both callers found the same token invalid, logged in and took the write
\* lock one after the other; both have returned and the mutex is free
C37_Witness ==
    /\ \A g \in Callers :
           /\ calls[g].pc = "done"
           /\ calls[g].path = "login"
           /\ ~calls[g].err
           /\ HoldsNoLock(g)
    /\ calls[1].seen = calls[2].seen
    /\ mutex = Unlocked

=============================================================================
